---- MODULE Spec2Model ----
(***************************************************************************)
(* A model of the QM9 dataset-to-graph pipeline of learning-with-class:    *)
(* the store build (QM9Dataset.process), the dataset object (construction, *)
(* get_pairwise, __getitem__, data_by_type), the collate functions, and    *)
(* the trainers (Trainer.train, CLASSTrainer.process_batch).               *)
(*                                                                         *)
(* Tensors are sequences (1-based here, 0-based in the source: atom and    *)
(* node numbers keep the source's 0-based values, positions in a sequence  *)
(* are shifted by one).                                                    *)
(***************************************************************************)
EXTENDS Integers, Sequences, FiniteSets, TLC

VARIABLES
    phase,       \* which part of the pipeline this behaviour exercises, and where it stands
    raw,         \* the raw dataset (qm9_eV.npz and qm9.csv): one record per molecule
    proc,        \* process(): the locals of the build loop (atom_slices, edge_slices, ...)
    data_dict,   \* the persisted artifact written by process(), NoArtifact before
    ds,          \* the QM9Dataset object: its fields after __init__
    ret,         \* what the last call on the dataset returned
    batch,       \* the argument of the last collate call
    out,         \* what the last collate call returned
    trainer      \* the Trainer object: its fields, the loop of train(), the files it wrote

vars == <<phase, raw, proc, data_dict, ds, ret, batch, out, trainer>>

(***************************************************************************)
(* Bounds of the model.                                                    *)
(***************************************************************************)
MaxAtoms == 3
MaxMols == 2
MaxCalls == 2
MaxBatch == 3
MaxSeqLen == 5
MaxNoised == 2
MaxDrop == 3
MaxConformers == 3
MaxEpochs == 4
MaxPatience == 2
MaxScore == 2
MaxTrainBatches == 2
MaxOptimSteps == 6
MaxIterationsPerModel == 3

(***************************************************************************)
(* Helpers on sequences.                                                   *)
(***************************************************************************)
RECURSIVE SumSeq(_)
SumSeq(s) == IF s = <<>> THEN 0 ELSE Head(s) + SumSeq(Tail(s))

RECURSIVE Flatten(_)
Flatten(ss) == IF ss = <<>> THEN <<>> ELSE Head(ss) \o Flatten(Tail(ss))

Range(s) == {s[k] : k \in DOMAIN s}

Max(S) == CHOOSE x \in S : \A y \in S : y <= x

\* a field that holds no tensor or list (yet)
NoValue == <<>>

\* no call made yet
NoCall == [call |-> "none"]

\* no Trainer object
NoTrainer == [state |-> "none"]

\* the processed file does not exist
NoArtifact == [exists |-> FALSE]

(***************************************************************************)
(* Raw inputs of process(): per molecule the atom count of the npz bundle  *)
(* (data_qm9['N']), whether its SMILES parses, and the bonds of the parsed *)
(* molecule, each (begin atom, end atom, feature vector).  Every molecule   *)
(* of the store has a bond (the smallest molecules of QM9 have 3 atoms).   *)
(***************************************************************************)
\* self.unit_conversion: the 19 properties in the order of the table (and of the
\* csv columns), and the factor that converts each one to the canonical unit
UnitConversionKeys ==
    << "A", "B", "C", "mu", "alpha", "homo", "lumo", "gap", "r2", "zpve", "u0", "u298",
       "h298", "g298", "cv", "u0_atom", "u298_atom", "h298_atom", "g298_atom" >>

\* hartree2eV, physical_constants['hartree-electron volt relationship'] (27.2114),
\* to the integer
hartree2eV == 27

UnitConversion(task) ==
    IF task \in {"A", "B", "C", "mu", "alpha", "r2", "cv"} THEN 1 ELSE hartree2eV

\* the target row (19 raw values) of the molecules whose targets do not matter
PlainTarget(n) == [p \in DOMAIN UnitConversionKeys |-> n]

BondFeatureVectors == << <<0, 0, 0>>, <<1, 0, 1>> >>

BondFeature(k, f) == BondFeatureVectors[((k + f) % 2) + 1]

\* mol.GetBonds() of a chain 0-1-2-...-(n-1), closed into a ring when asked
ChainBonds(n, ring, f) ==
    [k \in 1..(n - 1) |-> [i |-> k - 1, j |-> k, feat |-> BondFeature(k, f)]]
        \o (IF ring /\ n >= 3
            THEN << [i |-> n - 1, j |-> 0, feat |-> BondFeature(n, f)] >>
            ELSE <<>>)

RawMolecules ==
    { [N |-> n, atoms |-> n, parses |-> TRUE, bonds |-> ChainBonds(n, r, f),
       target |-> PlainTarget(n)] :
        n \in 2..MaxAtoms, r \in BOOLEAN, f \in 0..1 }

\* the raw molecules process() is run on: those above, with either of two target rows
ProcessMolecules ==
    { [mol EXCEPT !.target = PlainTarget(t)] : mol \in RawMolecules, t \in 1..2 }

UnparsableMolecules ==
    { [N |-> n, atoms |-> n, parses |-> FALSE, bonds |-> <<>>, target |-> PlainTarget(n)] :
        n \in 2..MaxAtoms }

\* raw molecules whose SMILES string, with its hydrogens added, has another
\* number of atoms (atoms) than the npz bundle records for them (N)
MismatchedMolecules ==
    { [N |-> n, atoms |-> k, parses |-> TRUE, bonds |-> ChainBonds(k, FALSE, 0),
       target |-> PlainTarget(n)] :
        n \in 1..MaxAtoms, k \in 2..MaxAtoms } \ RawMolecules

\* raw datasets of up to MaxMols molecules
RawDatasets(molecules) == UNION { [1..m -> molecules] : m \in 1..MaxMols }

\* data_qm9['R'] of the npz bundle: one coordinate row per atom, molecule after
\* molecule (a row is one number here, a position on a line)
RawCoordinates(mols) ==
    Flatten([m \in DOMAIN mols |-> [a \in 1..mols[m].N |-> 100 * m + 7 * (a - 1) * (a - 1)]])

\* atom_to_feature_vector(atom) of atom a of a parsed molecule (one number
\* stands for the vector of nine categories)
AtomToFeatureVector(mol, a) == 10 * mol.N + a

(***************************************************************************)
(* QM9Dataset.process                                                      *)
(***************************************************************************)
max_freqs == 10

ProcInit ==
    [ atom_slices |-> <<0>>, edge_slices |-> <<0>>,
      total_atoms |-> 0, total_edges |-> 0,
      N |-> <<>>,
      all_atom_features |-> <<>>,
      total_eigvecs |-> <<>>,
      edge_indices |-> <<>>, all_edge_features |-> <<>>, targets |-> <<>> ]

\* (faulty variant) a molecule that does not parse is passed on
ParseFailsNever(mol) == FALSE

\* Chem.MolFromSmiles returns None for a string that does not parse, and
\* Chem.AddHs(None) raises
ParseFails(mol) == ~mol.parses

\* "for atom in mol.GetAtoms(): atom_features_list.append(...)"
AtomFeaturesList(mol) == [a \in 1..mol.atoms |-> AtomToFeatureVector(mol, a - 1)]

\* line 467, torch.eye(n_atoms) - N * L * N: an [n_atoms, n_atoms] and an
\* [atoms, atoms] matrix broadcast when the sizes are equal or one of them is 1
LaplacianRaises(mol) == mol.N # mol.atoms /\ mol.N # 1 /\ mol.atoms # 1

\* lines 468-479: the eig_vecs block of one molecule, one row per row of L_sym
\* (a row is one number here), and its width after the padding by
\* max_freqs - n_atoms columns
EigVecs(mol) ==
    LET size == IF mol.N > mol.atoms THEN mol.N ELSE mol.atoms
        kept == IF size < max_freqs THEN size ELSE max_freqs
    IN [rows |-> [r \in 1..size |-> 1000 * mol.N + r],
        width |-> IF mol.N < max_freqs THEN kept + (max_freqs - mol.N) ELSE kept]

\* (faulty variant) the atoms numbered from 1
EdgesListOneBased(bonds) ==
    Flatten([k \in DOMAIN bonds |-> << <<bonds[k].i + 1, bonds[k].j + 1>>,
                                       <<bonds[k].j + 1, bonds[k].i + 1>> >>])

\* "add edges in both directions": edges_list and edge_features_list of one molecule
EdgesList(bonds) ==
    Flatten([k \in DOMAIN bonds |-> << <<bonds[k].i, bonds[k].j>>, <<bonds[k].j, bonds[k].i>> >>])

\* (faulty variant) the feature vector is kept for the first direction only
EdgeFeaturesListOnce(bonds) ==
    Flatten([k \in DOMAIN bonds |-> << bonds[k].feat, <<0, 0, 0>> >>])

EdgeFeaturesList(bonds) ==
    Flatten([k \in DOMAIN bonds |-> << bonds[k].feat, bonds[k].feat >>])

\* (faulty variant) the molecule's own count in place of the running total
NextTotalAtomsOwn(p, mol) == mol.N

\* the running totals after one molecule, as appended to the slice lists
NextTotalAtoms(p, mol) == p.total_atoms + mol.N

NextTotalEdges(p, mol) == p.total_edges + Len(EdgesList(mol.bonds))

\* one iteration of the loop over data_qm9['N']
ProcessMolecule(p, mol) ==
    [ atom_slices |-> Append(p.atom_slices, NextTotalAtoms(p, mol)),
      edge_slices |-> Append(p.edge_slices, NextTotalEdges(p, mol)),
      total_atoms |-> NextTotalAtoms(p, mol),
      total_edges |-> NextTotalEdges(p, mol),
      N |-> Append(p.N, mol.N),
      all_atom_features |-> Append(p.all_atom_features, AtomFeaturesList(mol)),
      total_eigvecs |-> Append(p.total_eigvecs, EigVecs(mol)),
      edge_indices |-> Append(p.edge_indices, EdgesList(mol.bonds)),
      all_edge_features |-> Append(p.all_edge_features, EdgeFeaturesList(mol.bonds)),
      targets |-> Append(p.targets, mol.target) ]

\* the data_dict of the end of process(): the per-molecule lists concatenated
DataDict(p, coordinates) ==
    [ mol_id |-> [m \in DOMAIN p.N |-> m - 1],
      n_atoms |-> p.N,
      atom_slices |-> p.atom_slices,
      edge_slices |-> p.edge_slices,
      edge_indices |-> Flatten(p.edge_indices),
      atom_features |-> Flatten(p.all_atom_features),
      eig_vecs |-> Flatten([m \in DOMAIN p.total_eigvecs |-> p.total_eigvecs[m].rows]),
      eig_vals |-> [m \in DOMAIN p.total_eigvecs |-> 1000 * p.N[m]],
      edge_features |-> Flatten(p.all_edge_features),
      coordinates |-> coordinates,
      \* "convert targets to eV units"
      targets |-> [m \in DOMAIN p.targets |->
                     [c \in DOMAIN UnitConversionKeys |->
                        p.targets[m][c] * UnitConversion(UnitConversionKeys[c])]] ]

RECURSIVE ProcessAll(_, _)
ProcessAll(p, mols) ==
    IF mols = <<>> THEN p ELSE ProcessAll(ProcessMolecule(p, Head(mols)), Tail(mols))

\* the artifact process() persists for a raw dataset whose molecules all parse
BuildStore(mols) == DataDict(ProcessAll(ProcInit, mols), RawCoordinates(mols))

\* torch.cat(total_eigvecs), torch.cat(total_eigvals): the blocks must have one width
CatRaises(total_eigvecs) ==
    \E m, k \in DOMAIN total_eigvecs : total_eigvecs[m].width # total_eigvecs[k].width

\* process() as one call: the artifact afterwards, given the one before
process(mols, artifact) ==
    IF \/ \E m \in DOMAIN mols : ParseFails(mols[m]) \/ LaplacianRaises(mols[m])
       \/ CatRaises([m \in DOMAIN mols |-> EigVecs(mols[m])])
    THEN [raised |-> TRUE, data_dict |-> artifact]
    ELSE [raised |-> FALSE, data_dict |-> BuildStore(mols)]

DsNone == [state |-> "unbuilt"]

\* one iteration of the loop, on the next molecule of the raw dataset
ProcessStep ==
    /\ phase = "process"
    /\ Len(proc.N) < Len(raw)
    /\ ~ParseFails(raw[Len(proc.N) + 1])
    /\ ~LaplacianRaises(raw[Len(proc.N) + 1])
    /\ proc' = ProcessMolecule(proc, raw[Len(proc.N) + 1])
    /\ UNCHANGED <<trainer, phase, raw, data_dict, ds, ret, batch, out>>

\* an exception inside the loop (Chem.MolFromSmiles returns None and Chem.AddHs
\* raises, or the matrices of line 467 do not broadcast): nothing is saved
ProcessParseError ==
    /\ phase = "process"
    /\ Len(proc.N) < Len(raw)
    /\ ParseFails(raw[Len(proc.N) + 1]) \/ LaplacianRaises(raw[Len(proc.N) + 1])
    /\ phase' = "process_failed"
    /\ UNCHANGED <<trainer, raw, proc, data_dict, ds, ret, batch, out>>

\* after the loop: unit conversion, data_dict, torch.save
ProcessSave ==
    /\ phase = "process"
    /\ Len(proc.N) = Len(raw)
    /\ IF CatRaises(proc.total_eigvecs)
       THEN phase' = "process_failed" /\ UNCHANGED data_dict
       ELSE phase' = "process_saved" /\ data_dict' = DataDict(proc, RawCoordinates(raw))
    /\ UNCHANGED <<trainer, raw, proc, ds, ret, batch, out>>

InitProcess ==
    /\ phase = "process"
    /\ raw \in RawDatasets(ProcessMolecules \cup UnparsableMolecules \cup MismatchedMolecules)
    /\ proc = ProcInit
    /\ data_dict = NoArtifact
    /\ ds = DsNone
    /\ ret = NoCall
    /\ batch = NoCall
    /\ out = NoCall
    /\ trainer = NoTrainer

NextProcess == ProcessStep \/ ProcessParseError \/ ProcessSave

SpecProcess == InitProcess /\ [][NextProcess]_vars

(***************************************************************************)
(* QM9Dataset: the pairwise memo (self.pairwise) and get_pairwise.         *)
(*                                                                         *)
(* A key of the dict is the object the caller passes as n_atoms.  __init__ *)
(* and __getitem__ pass an element of the tensor meta_dict['n_atoms']: a   *)
(* 0-dim tensor created by the indexing, and a tensor hashes by identity   *)
(* (id), so such a key carries the identity of its object.  A caller that  *)
(* passes a Python int passes a key that hashes and compares by value.     *)
(***************************************************************************)
TensorKey(obj, n) == [kind |-> "tensor", obj |-> obj, val |-> n]

\* dict lookup: equal hash, then identity or ==
SameKey(a, b) ==
    IF a.kind = "int" /\ b.kind = "int" THEN a.val = b.val
    ELSE a.kind = "tensor" /\ b.kind = "tensor" /\ a.obj = b.obj

Lookup(pairwise, key) ==
    pairwise[CHOOSE k \in DOMAIN pairwise : SameKey(pairwise[k].key, key)]

\* torch.arange(n)
Arange(n) == [k \in 1..n |-> k - 1]

\* torch.repeat_interleave(s, r)
RepeatInterleave(s, r) == Flatten([k \in DOMAIN s |-> [j \in 1..r |-> s[k]]])

\* python s[a:b]
Slice(s, a, b) == SubSeq(s, a + 1, b)

PairwiseSrc(n) == RepeatInterleave(Arange(n), n - 1)

\* (faulty variant) the self-pair kept
PairwiseDstOfAll(n, idx) == Arange(n)

\* (faulty variant) the two parts in the other order
PairwiseDstOfSwapped(n, idx) == Slice(Arange(n), idx + 1, n) \o Slice(Arange(n), 0, idx)

\* torch.cat([arange(n)[:idx], arange(n)[idx + 1:]])
PairwiseDstOf(n, idx) == Slice(Arange(n), 0, idx) \o Slice(Arange(n), idx + 1, n)

PairwiseDst(n) == Flatten([i \in 1..n |-> PairwiseDstOf(n, i - 1)])

\* get_pairwise(n_atoms) on the dict: the dict afterwards and the pair returned
\* (hit: the pair came from the dict)
get_pairwise(pairwise, key) ==
    \* "n_atoms in self.pairwise"
    IF \E k \in DOMAIN pairwise : SameKey(pairwise[k].key, key)
    THEN [pairwise |-> pairwise,
          src |-> Lookup(pairwise, key).src, dst |-> Lookup(pairwise, key).dst,
          hit |-> TRUE]
    ELSE [pairwise |-> Append(pairwise,
                              [key |-> key, src |-> PairwiseSrc(key.val),
                               dst |-> PairwiseDst(key.val)]),
          src |-> PairwiseSrc(key.val), dst |-> PairwiseDst(key.val),
          hit |-> FALSE]

(***************************************************************************)
(* Graphs (dgl.graph): node count and the two edge index sequences, with   *)
(* the edge data set on it.                                                *)
(***************************************************************************)
\* dgl.graph((src, dst)): the node count is inferred from the largest index
InferNumNodes(src, dst) ==
    IF src = <<>> THEN 0 ELSE Max(Range(src) \cup Range(dst)) + 1

\* where torch.load puts the tensors of the artifact (process() built them
\* on the cpu), and where dgl.graph builds a graph from them
StoreDevice == "cpu"

\* the values of the device argument
Devices == {"cpu", "cuda:0"}

\* the identity of a graph object: the list of the dataset that holds it and
\* its position there, or no list (an object only the caller holds)
NoRef == [list |-> "none", idx |-> 0]

\* dgl.graph((src, dst), num_nodes): ndata feat/x and edata feat/d/w not set yet
DglGraph(src, dst, num_nodes) ==
    [num_nodes |-> num_nodes, src |-> src, dst |-> dst, feat |-> NoValue,
     nfeat |-> NoValue, x |-> NoValue, d |-> NoValue, w |-> NoValue,
     real |-> NoValue, pos_enc |-> NoValue,
     device |-> StoreDevice, ref |-> NoRef]

\* dgl.heterograph({bond: (src, dst), complete: (csrc, cdst)}) over the one node
\* type 'atom': the node count is inferred from the largest index of both
DglHeterograph(src, dst, csrc, cdst) ==
    [num_nodes |-> InferNumNodes(src \o csrc, dst \o cdst),
     src |-> src, dst |-> dst, csrc |-> csrc, cdst |-> cdst, feat |-> NoValue,
     nfeat |-> NoValue, x |-> NoValue, d |-> NoValue, w |-> NoValue,
     real |-> NoValue, pos_enc |-> NoValue,
     device |-> StoreDevice, ref |-> NoRef]

\* g.to(device): the graph itself when it is on that device already, a copy on
\* the device otherwise
To(g, device) ==
    IF g.device = device THEN g ELSE [g EXCEPT !.device = device, !.ref = NoRef]

(***************************************************************************)
(* The numbers of the normalized targets, in exact arithmetic.  A finite   *)
(* number is (num / den) * s^sd, where s stands for the (positive)         *)
(* standard deviation of the column the number belongs to; nan and inf are *)
(* the float values of 0/0 and x/0.                                        *)
(***************************************************************************)
Abs(x) == IF x < 0 THEN -x ELSE x

RECURSIVE GCD(_, _)
GCD(a, b) == IF b = 0 THEN a ELSE GCD(b, a % b)

Fin(num, den, sd) ==
    LET g == GCD(Abs(num), den)
    IN [tag |-> "fin", num |-> num \div g, den |-> den \div g, sd |-> IF num = 0 THEN 0 ELSE sd]

NaN == [tag |-> "nan", num |-> 0, den |-> 1, sd |-> 0]

Inf(sign) == [tag |-> "inf", num |-> sign, den |-> 1, sd |-> 0]

Zero == Fin(0, 1, 0)

\* the standard deviation of a column that is not constant
Sigma == Fin(1, 1, 1)

Sign(x) == IF x < 0 THEN -1 ELSE 1

\* a + b
NumAdd(a, b) ==
    IF a.tag = "nan" \/ b.tag = "nan" THEN NaN
    ELSE IF a.tag = "inf" THEN (IF b.tag = "inf" /\ b.num # a.num THEN NaN ELSE a)
    ELSE IF b.tag = "inf" THEN b
    ELSE IF a.sd = b.sd \/ a = Zero \/ b = Zero
         THEN Fin(a.num * b.den + b.num * a.den, a.den * b.den, IF a = Zero THEN b.sd ELSE a.sd)
    ELSE [tag |-> "sum", num |-> 0, den |-> 1, sd |-> 0, terms |-> {a, b}]

\* a - b
NumSub(a, b) == NumAdd(a, IF b.tag = "fin" THEN Fin(-b.num, b.den, b.sd) ELSE
                          IF b.tag = "inf" THEN Inf(-b.num) ELSE b)

\* a * std and a / std, std being nan, 0 or Sigma
NumMulStd(a, std) ==
    IF a.tag = "nan" \/ std.tag = "nan" THEN NaN
    ELSE IF std = Zero THEN (IF a.tag = "inf" THEN NaN ELSE Zero)
    ELSE IF a.tag = "inf" THEN a
    ELSE Fin(a.num, a.den, a.sd + 1)

NumDivStd(a, std) ==
    IF a.tag = "nan" \/ std.tag = "nan" THEN NaN
    ELSE IF std = Zero THEN (IF a = Zero THEN NaN ELSE IF a.tag = "inf" THEN a ELSE Inf(Sign(a.num)))
    ELSE IF a.tag = "inf" THEN a
    ELSE Fin(a.num, a.den, a.sd - 1)

\* tensor.mean(dim=0) of one column of integers
ColumnMean(column) == Fin(SumSeq(column), Len(column), 0)

\* tensor.std(dim=0) (unbiased) of one column: nan for a single row, 0 for a
\* constant column, the positive number Sigma otherwise
ColumnStd(column) ==
    IF Len(column) < 2 THEN NaN
    ELSE IF \A m \in DOMAIN column : column[m] = column[1] THEN Zero
    ELSE Sigma

(***************************************************************************)
(* QM9Dataset.__init__                                                     *)
(***************************************************************************)
DefaultTargetTasks ==
    << "mu", "alpha", "homo", "lumo", "gap", "r2", "zpve", "u0", "u298", "h298", "g298", "cv" >>

\* (faulty variant) the position of the first key, whatever the task
IndexOfFirst(seq, x) == 1

\* list(...).index(x)
IndexOf(seq, x) == CHOOSE k \in DOMAIN seq : seq[k] = x

\* (faulty variant) the value before normalization: the division by the std left out
NormalizeTargetCentered(x, mean, std) == NumSub(x, mean)

\* (self.targets - self.targets_mean) / self.targets_std, at one entry
NormalizeTarget(x, mean, std) == NumDivStd(NumSub(x, mean), std)

\* lines 259-268: the selected targets, their statistics, the stored targets
SelectTargets(dd, target_tasks, normalize) ==
    LET task_indices == [j \in DOMAIN target_tasks |-> IndexOf(UnitConversionKeys, target_tasks[j])]
        selected == [m \in DOMAIN dd.targets |-> [j \in DOMAIN task_indices |-> dd.targets[m][task_indices[j]]]]
        column(j) == [m \in DOMAIN selected |-> selected[m][j]]
        targets_mean == [j \in DOMAIN task_indices |-> ColumnMean(column(j))]
        targets_std == [j \in DOMAIN task_indices |-> ColumnStd(column(j))]
    IN [task_indices |-> task_indices,
        targets_mean |-> targets_mean,
        targets_std |-> targets_std,
        targets |-> [m \in DOMAIN selected |->
                       [j \in DOMAIN task_indices |->
                          IF normalize
                          THEN NormalizeTarget(Fin(selected[m][j], 1, 0), targets_mean[j], targets_std[j])
                          ELSE Fin(selected[m][j], 1, 0)]]]
\* ogb's get_atom_feature_dims(): one entry per atom feature
AtomFeatureDims == <<119, 4, 12, 12, 10, 6, 6, 2, 2>>

\* self.return_type_options
ReturnTypeOptions ==
    { "mol_graph", "complete_graph", "mol_graph3d", "complete_graph3d", "san_graph",
      "mol_complete_graph", "se3Transformer_graph", "se3Transformer_graph3d",
      "pairwise_distances", "pairwise_distances_squared", "pairwise_indices",
      "raw_features", "coordinates", "dist_embedding", "mol_id", "targets",
      "one_hot_bond_types", "edge_indices", "smiles", "atomic_number_long" }

\* lines 231-236: one bonded graph per molecule, kept in self.mol_graphs
PrefetchMolGraphs(dd) ==
    [k \in DOMAIN dd.n_atoms |->
        LET edges == Slice(dd.edge_indices, dd.edge_slices[k], dd.edge_slices[k + 1])
        IN [DglGraph([e \in DOMAIN edges |-> edges[e][1]],
                     [e \in DOMAIN edges |-> edges[e][2]], dd.n_atoms[k])
               EXCEPT !.ref = [list |-> "mol_graphs", idx |-> k - 1]]]

\* lines 242-245: one get_pairwise call and one complete graph per molecule; the
\* loop variable n_atoms is a fresh element of the n_atoms tensor each time
RECURSIVE PrefetchCompleteGraphs(_, _, _, _)
PrefetchCompleteGraphs(n_atoms, pairwise, next_obj, graphs) ==
    IF Len(graphs) = Len(n_atoms) THEN [pairwise |-> pairwise, next_obj |-> next_obj, graphs |-> graphs]
    ELSE LET r == get_pairwise(pairwise, TensorKey(next_obj, n_atoms[Len(graphs) + 1]))
         IN PrefetchCompleteGraphs(n_atoms, r.pairwise, next_obj + 1,
                Append(graphs, [DglGraph(r.src, r.dst, InferNumNodes(r.src, r.dst))
                                   EXCEPT !.ref = [list |-> "complete_graphs", idx |-> Len(graphs)]]))

\* lines 250-254: one get_pairwise call and one heterograph per molecule, both
\* relations built from the pair (src, dst)
RECURSIVE PrefetchMolCompleteGraphs(_, _, _, _)
PrefetchMolCompleteGraphs(n_atoms, pairwise, next_obj, graphs) ==
    IF Len(graphs) = Len(n_atoms) THEN [pairwise |-> pairwise, next_obj |-> next_obj, graphs |-> graphs]
    ELSE LET r == get_pairwise(pairwise, TensorKey(next_obj, n_atoms[Len(graphs) + 1]))
         IN PrefetchMolCompleteGraphs(n_atoms, r.pairwise, next_obj + 1,
                Append(graphs, [DglHeterograph(r.src, r.dst, r.src, r.dst)
                                   EXCEPT !.ref = [list |-> "mol_complete_graphs", idx |-> Len(graphs)]]))

\* the arguments of the constructor (target_tasks <<>>: None or [])
Args(return_types, target_tasks, normalize, device, prefetch_graphs) ==
    [return_types |-> return_types, target_tasks |-> target_tasks, normalize |-> normalize,
     device |-> device, prefetch_graphs |-> prefetch_graphs]

\* lines 270-272: 1000 for the tasks whose unit conversion is not 1.0
eV2meV(task_indices) ==
    [j \in DOMAIN task_indices |->
        IF UnitConversion(UnitConversionKeys[task_indices[j]]) = 1 THEN 1 ELSE 1000]

\* lines 196-199: "set default"
TargetTasksOf(target_tasks_arg) ==
    IF target_tasks_arg = <<>> THEN DefaultTargetTasks ELSE target_tasks_arg

\* lines 208-274: the object built from the loaded artifact dd; events are the
\* calls (process(), torch.load) the constructor made before
NewDataset(dd, args, events) ==
    LET return_types == args.return_types
        prefetch_graphs == args.prefetch_graphs
        wantMol == prefetch_graphs /\ \E k \in DOMAIN return_types :
            return_types[k] \in {"mol_graph", "mol_graph3d", "se3Transformer_graph", "se3Transformer_graph3d"}
        wantComplete == prefetch_graphs /\ \E k \in DOMAIN return_types :
            return_types[k] \in {"complete_graph", "complete_graph3d", "san_graph"}
        wantMolComplete == prefetch_graphs /\ \E k \in DOMAIN return_types :
            return_types[k] \in {"mol_complete_graph", "mol_complete_graph3d"}
        pre == IF wantComplete THEN PrefetchCompleteGraphs(dd.n_atoms, <<>>, 1, <<>>)
               ELSE [pairwise |-> <<>>, next_obj |-> 1, graphs |-> NoValue]
        pre2 == IF wantMolComplete THEN PrefetchMolCompleteGraphs(dd.n_atoms, pre.pairwise, pre.next_obj, <<>>)
                ELSE [pairwise |-> pre.pairwise, next_obj |-> pre.next_obj, graphs |-> NoValue]
        target_tasks == TargetTasksOf(args.target_tasks)
        sel == SelectTargets(dd, target_tasks, args.normalize)
    IN [ state |-> "ready",
         args |-> args,
         events |-> events,
         device |-> args.device,
         return_types |-> return_types,
         target_tasks |-> target_tasks,
         normalize |-> args.normalize,
         task_indices |-> sel.task_indices,
         targets |-> sel.targets,
         targets_mean |-> sel.targets_mean,
         targets_std |-> sel.targets_std,
         eV2meV |-> eV2meV(sel.task_indices),
         prefetch_graphs |-> prefetch_graphs,
         mol_id |-> dd.mol_id,
         n_atoms |-> dd.n_atoms,
         atom_slices |-> dd.atom_slices,
         edge_slices |-> dd.edge_slices,
         edge_indices |-> dd.edge_indices,
         features_tensor |-> dd.atom_features,
         coordinates |-> dd.coordinates,
         e_features_tensor |-> dd.edge_features,
         eig_vals |-> IF \E k \in DOMAIN return_types : return_types[k] = "san_graph"
                      THEN dd.eig_vals ELSE NoValue,
         eig_vecs |-> IF \E k \in DOMAIN return_types : return_types[k] = "san_graph"
                      THEN dd.eig_vecs ELSE NoValue,
         bond_padding_indices |-> AtomFeatureDims,
         mol_graphs |-> IF wantMol THEN PrefetchMolGraphs(dd) ELSE NoValue,
         pairwise |-> pre2.pairwise,
         next_obj |-> pre2.next_obj,
         complete_graphs |-> pre.graphs,
         mol_complete_graphs |-> pre2.graphs,
         calls |-> 0 ]

\* the constructor raised: no object
Raised(error, args, events) ==
    [state |-> "error", error |-> error, args |-> args, events |-> events]

\* (faulty variant) no return type is rejected
ReturnTypeSupportedAny(return_type) == TRUE

\* line 194: "return_type in self.return_type_options"
ReturnTypeSupported(return_type) == return_type \in ReturnTypeOptions

\* line 201: "assert target_task in self.unit_conversion.keys()"
TargetTaskKnown(target_task) == target_task \in Range(UnitConversionKeys)

\* (faulty variant) the processed file is never found
ExistsNever(artifact) == FALSE

\* line 204: os.path.exists(... self.processed_file)
Exists(artifact) == artifact # NoArtifact

\* QM9Dataset(...) on the raw dataset mols and the processed file: the object (or
\* the exception) and the processed file afterwards
QM9Dataset(mols, artifact, args) ==
    IF \E k \in DOMAIN args.return_types : ~ReturnTypeSupported(args.return_types[k])
    THEN [ds |-> Raised("return_type not supported", args, <<>>), data_dict |-> artifact]
    ELSE IF \E k \in DOMAIN TargetTasksOf(args.target_tasks) :
                ~TargetTaskKnown(TargetTasksOf(args.target_tasks)[k])
    THEN [ds |-> Raised("AssertionError", args, <<>>), data_dict |-> artifact]
    ELSE LET built == IF ~Exists(artifact) THEN process(mols, artifact)
                      ELSE [raised |-> FALSE, data_dict |-> artifact]
             events == IF ~Exists(artifact) THEN <<"process">> ELSE <<>>
         IN IF built.raised
            THEN [ds |-> Raised("process failed", args, events), data_dict |-> built.data_dict]
            ELSE [ds |-> NewDataset(built.data_dict, args, Append(events, "load")),
                  data_dict |-> built.data_dict]

(***************************************************************************)
(* QM9Dataset.__getitem__ and data_by_type                                 *)
(***************************************************************************)
\* get_graph
get_graph(d, idx, e_start, e_end, n_atoms) ==
    IF d.prefetch_graphs THEN d.mol_graphs[idx + 1]
    ELSE LET edges == Slice(d.edge_indices, e_start, e_end)
         IN DglGraph([e \in DOMAIN edges |-> edges[e][1]],
                     [e \in DOMAIN edges |-> edges[e][2]], n_atoms)

\* get_complete_graph: the dataset afterwards and the graph
get_complete_graph(d, idx, n_atoms) ==
    IF d.prefetch_graphs THEN [d |-> d, g |-> d.complete_graphs[idx + 1]]
    ELSE LET r == get_pairwise(d.pairwise, TensorKey(d.next_obj, n_atoms))
         IN [d |-> [d EXCEPT !.pairwise = r.pairwise, !.next_obj = @ + 1],
             g |-> DglGraph(r.src, r.dst, InferNumNodes(r.src, r.dst))]

\* get_mol_complete_graph: the dataset afterwards and the heterograph
get_mol_complete_graph(d, idx, e_start, e_end, n_atoms) ==
    IF d.prefetch_graphs THEN [d |-> d, g |-> d.mol_complete_graphs[idx + 1]]
    ELSE LET edges == Slice(d.edge_indices, e_start, e_end)
             r == get_pairwise(d.pairwise, TensorKey(d.next_obj, n_atoms))
         IN [d |-> [d EXCEPT !.pairwise = r.pairwise, !.next_obj = @ + 1],
             g |-> DglHeterograph([e \in DOMAIN edges |-> edges[e][1]],
                                  [e \in DOMAIN edges |-> edges[e][2]], r.src, r.dst)]

\* t.clone().expand((nrows, -1)): nrows rows that are all views of one stored row
Expand(row, nrows) == [row |-> row, nrows |-> nrows]

\* no exception raised
NoError == ""

\* RuntimeError: shape mismatch: value tensor cannot be broadcast to indexing result
ShapeMismatch == [kind |-> "error", error |-> "shape mismatch"]

\* DGLError: the rows of a feature do not match the nodes (edges) of the graph
DGLError == "DGLError"

\* e_features[indices] = values on an expanded table: the value rows must
\* broadcast to the width of the table, and every write lands on the one stored row
IndexPutExpanded(t, indices, values, width) ==
    IF width # Len(t.row) /\ width # 1 THEN ShapeMismatch
    ELSE IF values = <<>> THEN t
    ELSE [t EXCEPT !.row = values[Len(values)]]

\* e_features[positions] of an expanded table
IndexExpanded(t, positions) == [k \in DOMAIN positions |-> t.row]

BondFeatureWidth == Len(BondFeatureVectors[1])

\* a mutation of a graph object is a mutation of the list entry that is this object
StoreBack(d, g) ==
    CASE g.ref.list = "none" -> d
      [] g.ref.list = "mol_graphs" -> [d EXCEPT !.mol_graphs[g.ref.idx + 1] = g]
      [] g.ref.list = "complete_graphs" -> [d EXCEPT !.complete_graphs[g.ref.idx + 1] = g]
      [] g.ref.list = "mol_complete_graphs" -> [d EXCEPT !.mol_complete_graphs[g.ref.idx + 1] = g]

\* the object a reference held by the caller stands for, as it is now
Deref(d, g) ==
    CASE g.ref.list = "none" -> g
      [] g.ref.list = "mol_graphs" -> d.mol_graphs[g.ref.idx + 1]
      [] g.ref.list = "complete_graphs" -> d.complete_graphs[g.ref.idx + 1]
      [] g.ref.list = "mol_complete_graphs" -> d.mol_complete_graphs[g.ref.idx + 1]

\* table[start: start + n_atoms]
Rows(table, start, n_atoms) == Slice(table, start, start + n_atoms)

\* torch.norm(x[src] - x[dst], p=2, dim=-1) over the edges (src, dst)
EdgeDistances(src, dst, x) == [e \in DOMAIN src |-> Abs(x[src[e] + 1] - x[dst[e] + 1])]

\* what data_by_type hands back: the dataset afterwards, the value and where it
\* resides, or the exception
Returned(d, value, device) == [d |-> d, value |-> value, error |-> NoError, device |-> device]

RaisedBy(d, error) == [d |-> d, value |-> NoValue, error |-> error, device |-> "none"]

\* data_by_type(idx, 'mol_graph', ...): lines 337-342
MolGraphData(d, idx, e_start, e_end, start, n_atoms) ==
    LET g0 == To(get_graph(d, idx, e_start, e_end, n_atoms), d.device)
    IN IF g0.num_nodes # n_atoms THEN RaisedBy(d, DGLError)
       ELSE LET g1 == [g0 EXCEPT !.nfeat = Rows(d.features_tensor, start, n_atoms),
                                 !.x = Rows(d.coordinates, start, n_atoms)]
            IN IF Len(g1.src) # e_end - e_start THEN RaisedBy(StoreBack(d, g1), DGLError)
               ELSE LET g2 == [g1 EXCEPT !.feat = Slice(d.e_features_tensor, e_start, e_end)]
                    IN Returned(StoreBack(d, g2), g2, g2.device)

\* data_by_type(idx, 'mol_graph3d', ...): lines 343-346
MolGraph3dData(d, idx, e_start, e_end, start, n_atoms) ==
    LET g0 == To(get_graph(d, idx, e_start, e_end, n_atoms), d.device)
    IN IF g0.num_nodes # n_atoms THEN RaisedBy(d, DGLError)
       ELSE LET g1 == [g0 EXCEPT !.x = Rows(d.coordinates, start, n_atoms)]
            IN Returned(StoreBack(d, g1), g1, g1.device)

\* lines 360-361 of 'complete_graph': the edge features are read from the table
\* at the positions of the pair r that get_pairwise returned, and assigned
CompleteGraphAssign(d, g1, put, r, n_atoms) ==
    LET positions == [e \in DOMAIN r.src |-> r.src[e] * n_atoms + r.dst[e]]
        g2 == [g1 EXCEPT !.feat = IndexExpanded(put, positions)]
        d2 == [d EXCEPT !.pairwise = r.pairwise, !.next_obj = @ + 1]
    IN IF Len(g2.feat) # Len(g2.src) THEN RaisedBy(StoreBack(d2, g1), DGLError)
       ELSE Returned(StoreBack(d2, g2), g2, g2.device)

\* lines 349-360 of 'complete_graph', on the graph g0 that .to(device) gave
CompleteGraphOn(d, g0, e_start, e_end, start, n_atoms) ==
    IF g0.num_nodes # n_atoms THEN RaisedBy(d, DGLError)
    ELSE LET x == Rows(d.coordinates, start, n_atoms)
             g1 == [g0 EXCEPT !.nfeat = Rows(d.features_tensor, start, n_atoms),
                              !.x = x, !.d = EdgeDistances(g0.src, g0.dst, x)]
             bond_features == Slice(d.e_features_tensor, e_start, e_end)
             e_features == Expand(d.bond_padding_indices, n_atoms * n_atoms)
             edge_indices == Slice(d.edge_indices, e_start, e_end)
             bond_indices == [e \in DOMAIN edge_indices |->
                                edge_indices[e][1] * n_atoms + edge_indices[e][2]]
             put == IndexPutExpanded(e_features, bond_indices, bond_features, BondFeatureWidth)
         IN IF put = ShapeMismatch THEN RaisedBy(StoreBack(d, g1), ShapeMismatch.error)
            ELSE CompleteGraphAssign(d, g1, put,
                                     get_pairwise(d.pairwise, TensorKey(d.next_obj, n_atoms)),
                                     n_atoms)

\* data_by_type(idx, 'complete_graph', ...): lines 347-364
CompleteGraphData(d, idx, e_start, e_end, start, n_atoms) ==
    CompleteGraphOn(get_complete_graph(d, idx, n_atoms).d,
                    To(get_complete_graph(d, idx, n_atoms).g, d.device),
                    e_start, e_end, start, n_atoms)

\* lines 367-372 of 'complete_graph3d', on the graph g0 that .to(device) gave
CompleteGraph3dOn(d, g0, start, n_atoms) ==
    IF g0.num_nodes # n_atoms THEN RaisedBy(d, DGLError)
    ELSE LET x == Rows(d.coordinates, start, n_atoms)
             g1 == [g0 EXCEPT !.x = x, !.d = EdgeDistances(g0.src, g0.dst, x)]
         IN Returned(StoreBack(d, g1), g1, g1.device)

\* data_by_type(idx, 'complete_graph3d', ...): lines 365-372 (dist_embedding False)
CompleteGraph3dData(d, idx, e_start, e_end, start, n_atoms) ==
    CompleteGraph3dOn(get_complete_graph(d, idx, n_atoms).d,
                      To(get_complete_graph(d, idx, n_atoms).g, d.device), start, n_atoms)

\* lines 375-379 of 'mol_complete_graph', on the graph g0 that .to(device) gave
MolCompleteGraphOn(d, g0, e_start, e_end, start, n_atoms) ==
    IF g0.num_nodes # n_atoms THEN RaisedBy(d, DGLError)
    ELSE LET g1 == [g0 EXCEPT !.nfeat = Rows(d.features_tensor, start, n_atoms),
                              !.x = Rows(d.coordinates, start, n_atoms)]
             g2 == [g1 EXCEPT !.feat = Slice(d.e_features_tensor, e_start, e_end)]
         IN IF Len(g0.src) # e_end - e_start THEN RaisedBy(StoreBack(d, g1), DGLError)
            ELSE Returned(StoreBack(d, g2), g2, g0.device)

\* data_by_type(idx, 'mol_complete_graph', ...): lines 373-379
MolCompleteGraphData(d, idx, e_start, e_end, start, n_atoms) ==
    MolCompleteGraphOn(get_mol_complete_graph(d, idx, e_start, e_end, n_atoms).d,
                       To(get_mol_complete_graph(d, idx, e_start, e_end, n_atoms).g, d.device),
                       e_start, e_end, start, n_atoms)

\* the id of the edge (u, v) of g: g.edges[u, v] looks every pair up
EdgeIds(g, u, v) ==
    [k \in DOMAIN u |-> CHOOSE e \in DOMAIN g.src : g.src[e] = u[k] /\ g.dst[e] = v[k]]

\* g.edges[u, v].data[key] = feats on a column that exists: DGL updates the
\* rows eids of the column, and refuses a feature whose dtype is not the column's
ColumnUpdate(column, column_dtype, eids, feats, feats_dtype) ==
    IF column_dtype # feats_dtype THEN DGLError
    ELSE [e \in DOMAIN column |->
            IF \E k \in DOMAIN eids : eids[k] = e
            THEN feats[CHOOSE k \in DOMAIN eids : eids[k] = e] ELSE column[e]]

\* lines 392-400 of 'san_graph': the columns 'feat' (float32 zeros) and 'real'
\* (long zeros) are created, then the rows of the bonded pairs are updated with
\* the stored bond features, which process() saved as torch.long
SanGraphEdges(d, g1, e_features, edge_indices) ==
    \* g.edata['feat'] and g.edata['real'] of zeros
    LET g2 == [g1 EXCEPT !.feat = [e \in DOMAIN g1.src |-> [c \in 1..BondFeatureWidth |-> 0]],
                         !.real = [e \in DOMAIN g1.src |-> 0]]
        u == [e \in DOMAIN edge_indices |-> edge_indices[e][1]]
        v == [e \in DOMAIN edge_indices |-> edge_indices[e][2]]
        feat == ColumnUpdate(g2.feat, "float32", EdgeIds(g2, u, v), e_features, "int64")
        real == ColumnUpdate(g2.real, "int64", EdgeIds(g2, u, v),
                             [e \in DOMAIN e_features |-> 1], "int64")
    IN IF feat = DGLError THEN RaisedBy(StoreBack(d, g2), DGLError)
       ELSE Returned(StoreBack(d, [g2 EXCEPT !.feat = feat, !.real = real]),
                     [g2 EXCEPT !.feat = feat, !.real = real], g2.device)

\* lines 381-391 of 'san_graph', on the graph g0 that .to(device) gave.  The
\* sign of every eigenvector column is drawn at random (sign_flip): pos_enc
\* keeps the rows up to that sign
SanGraphOn(d, g0, e_start, e_end, start, n_atoms, idx) ==
    IF g0.num_nodes # n_atoms THEN RaisedBy(d, DGLError)
    ELSE SanGraphEdges(d, [g0 EXCEPT !.nfeat = Rows(d.features_tensor, start, n_atoms),
                                     !.x = Rows(d.coordinates, start, n_atoms),
                                     !.pos_enc = [eig_vals |-> d.eig_vals[idx + 1],
                                                  eig_vecs |-> Rows(d.eig_vecs, start, n_atoms)]],
                       Slice(d.e_features_tensor, e_start, e_end),
                       Slice(d.edge_indices, e_start, e_end))

\* data_by_type(idx, 'san_graph', ...): lines 380-401
SanGraphData(d, idx, e_start, e_end, start, n_atoms) ==
    SanGraphOn(get_complete_graph(d, idx, n_atoms).d,
               To(get_complete_graph(d, idx, n_atoms).g, d.device),
               e_start, e_end, start, n_atoms, idx)

\* data_by_type(idx, 'se3Transformer_graph' or 'se3Transformer_graph3d', ...):
\* lines 402-412 (no transform); 'd' is the difference of the end coordinates
Se3TransformerGraphData(d, return_type, idx, e_start, e_end, start, n_atoms) ==
    LET g0 == To(get_graph(d, idx, e_start, e_end, n_atoms), d.device)
        x == Rows(d.coordinates, start, n_atoms)
        edge_indices == Slice(d.edge_indices, e_start, e_end)
    IN IF g0.num_nodes # n_atoms THEN RaisedBy(d, DGLError)
       ELSE LET g1 == [g0 EXCEPT !.x = x,
                                 !.d = [e \in DOMAIN edge_indices |->
                                          x[edge_indices[e][1] + 1] - x[edge_indices[e][2] + 1]]]
            IN IF Len(g1.src) # e_end - e_start THEN RaisedBy(StoreBack(d, [g0 EXCEPT !.x = x]), DGLError)
               ELSE IF return_type = "se3Transformer_graph"
               THEN Returned(StoreBack(d, [g1 EXCEPT !.feat = Slice(d.e_features_tensor, e_start, e_end)]),
                             [g1 EXCEPT !.feat = Slice(d.e_features_tensor, e_start, e_end)], g1.device)
               ELSE Returned(StoreBack(d, g1), g1, g1.device)

\* the kinds data_by_type has a branch for
ServedKinds ==
    { "mol_graph", "mol_graph3d", "complete_graph", "complete_graph3d", "mol_complete_graph",
      "san_graph", "se3Transformer_graph", "se3Transformer_graph3d", "raw_features",
      "coordinates", "mol_id", "targets", "edge_indices", "smiles" }

\* the kinds whose value is a graph
GraphKinds ==
    { "mol_graph", "mol_graph3d", "complete_graph", "complete_graph3d", "mol_complete_graph",
      "san_graph", "se3Transformer_graph", "se3Transformer_graph3d" }

data_by_type(d, idx, return_type, e_start, e_end, start, n_atoms) ==
    CASE return_type = "mol_graph" -> MolGraphData(d, idx, e_start, e_end, start, n_atoms)
      [] return_type = "mol_graph3d" -> MolGraph3dData(d, idx, e_start, e_end, start, n_atoms)
      [] return_type = "complete_graph" -> CompleteGraphData(d, idx, e_start, e_end, start, n_atoms)
      [] return_type = "complete_graph3d" -> CompleteGraph3dData(d, idx, e_start, e_end, start, n_atoms)
      [] return_type = "mol_complete_graph" ->
            MolCompleteGraphData(d, idx, e_start, e_end, start, n_atoms)
      [] return_type = "san_graph" -> SanGraphData(d, idx, e_start, e_end, start, n_atoms)
      [] return_type \in {"se3Transformer_graph", "se3Transformer_graph3d"} ->
            Se3TransformerGraphData(d, return_type, idx, e_start, e_end, start, n_atoms)
      [] return_type = "raw_features" ->
            Returned(d, Rows(d.features_tensor, start, n_atoms), StoreDevice)
      [] return_type = "coordinates" ->
            Returned(d, Rows(d.coordinates, start, n_atoms), StoreDevice)
      [] return_type = "mol_id" -> Returned(d, d.mol_id[idx + 1], "none")
      [] return_type = "targets" -> Returned(d, d.targets[idx + 1], StoreDevice)
      \* self.meta_dict holds mol_id, edge_slices, atom_slices and n_atoms only
      [] return_type = "edge_indices" -> RaisedBy(d, "KeyError")
      [] return_type = "smiles" -> Returned(d, [smiles_of |-> d.mol_id[idx + 1]], "none")
      [] return_type \notin ServedKinds -> RaisedBy(d, "return type not supported")

\* the loop of __getitem__ over self.return_types; an exception ends it.  The
\* entries of the tuple that are objects of the dataset are those objects, as
\* they are when the tuple is returned
RECURSIVE GetItemLoop(_, _, _, _, _)
RECURSIVE GetItemAppend(_, _, _, _, _, _)
\* data.append(...) of the value r that data_by_type gave for return_types[k]
GetItemAppend(d, idx, k, data, devices, r) ==
    IF r.error # NoError THEN [d |-> r.d, value |-> [kind |-> "error", error |-> r.error]]
    ELSE GetItemLoop(r.d, idx, k + 1, Append(data, r.value), Append(devices, r.device))

GetItemLoop(d, idx, k, data, devices) ==
    IF k > Len(d.return_types)
    THEN [d |-> d,
          value |-> [kind |-> "tuple",
                     data |-> [j \in DOMAIN data |->
                                 IF d.return_types[j] \in GraphKinds THEN Deref(d, data[j])
                                 ELSE data[j]],
                     devices |-> devices]]
    ELSE GetItemAppend(d, idx, k, data, devices,
                       data_by_type(d, idx, d.return_types[k],
                                    d.edge_slices[idx + 1], d.edge_slices[idx + 2],
                                    d.atom_slices[idx + 1], d.n_atoms[idx + 1]))

\* QM9Dataset(...) with the arguments args
ConstructFrom(args) ==
    \E r \in {QM9Dataset(raw, data_dict, args)} :
       /\ ds' = r.ds
       /\ data_dict' = r.data_dict
       /\ phase' = "dataset"
       /\ ret' = NoCall
       /\ UNCHANGED <<trainer, raw, proc, batch, out>>

Construct ==
    /\ phase = "dataset_new"
    /\ \E rt \in { <<"mol_graph">>, <<"complete_graph">>, <<"complete_graph3d">>,
                  <<"complete_graph3d", "mol_graph">> },
          dev \in Devices, pf \in BOOLEAN :
          ConstructFrom(Args(rt, <<>>, TRUE, dev, pf))

GetItem ==
    /\ phase = "dataset"
    /\ ds.state = "ready"
    /\ ds.calls < MaxCalls
    /\ \E idx \in 0..(Len(ds.n_atoms) - 1) :
          \E r \in {GetItemLoop(ds, idx, 1, <<>>, <<>>)} :
             /\ ds' = [r.d EXCEPT !.calls = @ + 1]
             /\ ret' = [call |-> "getitem", idx |-> idx, value |-> r.value]
    /\ UNCHANGED <<trainer, phase, raw, proc, data_dict, batch, out>>

\* a caller of get_pairwise that passes a Python int
GetPairwise ==
    /\ phase = "dataset"
    /\ ds.state = "ready"
    /\ ds.calls < MaxCalls
    /\ \E n \in 1..MaxAtoms :
          LET r == get_pairwise(ds.pairwise, [kind |-> "int", obj |-> 0, val |-> n])
          IN /\ ds' = [ds EXCEPT !.pairwise = r.pairwise, !.calls = @ + 1]
             /\ ret' = [call |-> "get_pairwise", n |-> n,
                        value |-> [src |-> r.src, dst |-> r.dst, hit |-> r.hit]]
    /\ UNCHANGED <<trainer, phase, raw, proc, data_dict, batch, out>>

\* the target_tasks lists datasets are constructed with (<<>>: None or [], the default)
TargetTaskLists == { <<>>, <<"mu">>, <<"homo", "mu">>, <<"gap", "A", "cv">> }

\* a dataset constructed for its targets
ConstructTargets ==
    /\ phase = "targets_new"
    /\ \E tasks \in TargetTaskLists, normalize \in BOOLEAN, pf \in BOOLEAN :
          ConstructFrom(Args(<<"mol_graph", "targets">>, tasks, normalize, "cuda:0", pf))

PlainMolecules == { mol \in RawMolecules : mol.bonds = ChainBonds(mol.N, FALSE, 0) }

InitDatasetFrom(molecules, start) ==
    /\ phase = start
    /\ raw \in RawDatasets(molecules)
    /\ proc = ProcInit
    /\ data_dict = BuildStore(raw)
    /\ ds = DsNone
    /\ ret = NoCall
    /\ batch = NoCall
    /\ out = NoCall
    /\ trainer = NoTrainer

NextDataset == Construct \/ GetItem \/ GetPairwise

SpecPairwise == InitDatasetFrom(PlainMolecules, "dataset_new") /\ [][NextDataset]_vars

SpecDataset == InitDatasetFrom(RawMolecules, "dataset_new") /\ [][NextDataset]_vars

TargetMolecules ==
    { [N |-> 2, atoms |-> 2, parses |-> TRUE, bonds |-> ChainBonds(2, FALSE, 0), target |-> row] :
        \* raw target rows: one value in the odd columns, one in the even columns
        row \in { [p \in DOMAIN UnitConversionKeys |-> IF p % 2 = 1 THEN odd ELSE even] :
                    odd \in {0, 1, 3}, even \in {0, 2} } }

NextTargets == ConstructTargets \/ GetItem

SpecTargets == InitDatasetFrom(TargetMolecules, "targets_new") /\ [][NextTargets]_vars

\* a dataset constructed on a raw dataset whose processed file may be missing
ConstructAny ==
    /\ phase = "lifecycle_new"
    /\ \E rt \in { <<"mol_graph", "targets">>, <<"coordinates">>, <<"bogus">>,
                  <<"mol_graph", "mol_complete_graph3d">>, <<"targets", "one_hot">> },
          tasks \in TargetTaskLists \cup { <<"energy">>, <<"mu", "u0_atoms">> },
          pf \in BOOLEAN :
          ConstructFrom(Args(rt, tasks, TRUE, "cuda:0", pf))

\* the raw dataset, some of its molecules not parsing, and the processed file:
\* missing, or the one a previous run built from this raw dataset
InitLifecycle ==
    /\ phase = "lifecycle_new"
    /\ raw \in RawDatasets(PlainMolecules \cup UnparsableMolecules)
    /\ proc = ProcInit
    /\ data_dict \in {NoArtifact} \cup
                     (IF \A m \in DOMAIN raw : raw[m].parses THEN {BuildStore(raw)} ELSE {})
    /\ ds = DsNone
    /\ ret = NoCall
    /\ batch = NoCall
    /\ out = NoCall
    /\ trainer = NoTrainer

NextLifecycle == ConstructAny \/ GetItem

SpecLifecycle == InitLifecycle /\ [][NextLifecycle]_vars

(***************************************************************************)
(* custom_collate.py.  A sample graph carries its node count, its edges    *)
(* and the edge weights edata['w'].                                        *)
(***************************************************************************)
WeightedGraph(src, dst, num_nodes) ==
    [DglGraph(src, dst, num_nodes) EXCEPT !.w = [e \in DOMAIN src |-> 10 * Abs(src[e] - dst[e])]]

\* the bonded graph of a chain molecule, as get_graph builds it
ChainGraph(n) ==
    LET edges == EdgesList(ChainBonds(n, FALSE, 0))
    IN WeightedGraph([e \in DOMAIN edges |-> edges[e][1]],
                     [e \in DOMAIN edges |-> edges[e][2]], n)

\* the complete graph of a molecule, as get_complete_graph builds it
CompleteGraph(n) == WeightedGraph(PairwiseSrc(n), PairwiseDst(n), n)

SampleGraphs == { ChainGraph(n) : n \in 1..MaxAtoms } \cup { CompleteGraph(n) : n \in 2..MaxAtoms }

\* (faulty variant) the node numbers of a graph kept as they are
OffsetNodesNone(nodes, offset) == nodes

\* node numbers of one graph as they are in the batch
OffsetNodes(nodes, offset) == [e \in DOMAIN nodes |-> nodes[e] + offset]

\* dgl.batch(graphs): the disjoint union, graph after graph
RECURSIVE DglBatchFrom(_, _)
DglBatchFrom(acc, graphs) ==
    IF graphs = <<>> THEN acc
    ELSE LET g == Head(graphs)
         IN DglBatchFrom([acc EXCEPT !.num_nodes = acc.num_nodes + g.num_nodes,
                                     !.src = acc.src \o OffsetNodes(g.src, acc.num_nodes),
                                     !.dst = acc.dst \o OffsetNodes(g.dst, acc.num_nodes),
                                     !.feat = acc.feat \o g.feat,
                                     !.nfeat = acc.nfeat \o g.nfeat,
                                     !.x = acc.x \o g.x,
                                     !.d = acc.d \o g.d,
                                     !.w = acc.w \o g.w],
                         Tail(graphs))

\* the batch is a new graph, on the device of the graphs
DglBatch(graphs) ==
    DglBatchFrom([DglGraph(<<>>, <<>>, 0) EXCEPT !.device = graphs[1].device], graphs)

\* batches of 1..MaxBatch samples
Batches(samples) == UNION { [1..k -> samples] : k \in 1..MaxBatch }

TargetValues == {0, 1}

\* graph_collate(batch)
graph_collate(b) ==
    [graph |-> DglBatch([k \in DOMAIN b |-> b[k][1]]),
     targets |-> [k \in DOMAIN b |-> b[k][2]]]

GraphCollate ==
    /\ phase = "collate"
    /\ \E b \in Batches(SampleGraphs \X TargetValues) :
          /\ batch' = [call |-> "graph_collate", samples |-> b]
          /\ out' = [call |-> "graph_collate", value |-> graph_collate(b)]
    /\ phase' = "collated"
    /\ UNCHANGED <<trainer, raw, proc, data_dict, ds, ret>>

\* (faulty variant) no copy: the same object again
DeepCopyAlias(heap, ref) == [heap |-> heap, ref |-> ref]

\* copy.deepcopy(graph) on the heap of graph objects: a new object
DeepCopy(heap, ref) == [heap |-> Append(heap, heap[ref]), ref |-> Len(heap) + 1]

\* copy_graph.edata['w'] += noise, in place on the object
AddNoise(heap, ref, noise) ==
    [heap EXCEPT ![ref].w = [e \in DOMAIN @ |-> @[e] + noise[e]]]

\* the loop "for i in range(self.num_noised)": the heap and the list graphs3d_noised
RECURSIVE NoisedCopies(_, _, _, _)
NoisedCopies(heap, graphs3d_noised, noises, origin) ==
    IF noises = <<>> THEN [heap |-> heap, graphs3d_noised |-> graphs3d_noised]
    ELSE LET c == DeepCopy(heap, origin)
         IN NoisedCopies(AddNoise(c.heap, c.ref, Head(noises)),
                         Append(graphs3d_noised, c.ref), Tail(noises), origin)

\* NoisedDistancesCollate(std, num_noised)(batch); noises[i] is randn_like * std of copy i
NoisedDistancesCollate(b, noises, with_targets) ==
    LET batched_graph == DglBatch([k \in DOMAIN b |-> b[k][1]])
        batched_graph3d == DglBatch([k \in DOMAIN b |-> b[k][2]])
        r == NoisedCopies(<<batched_graph3d>>, <<1>>, noises, 1)
    IN [graph |-> batched_graph,
        graph3d |-> DglBatch([k \in DOMAIN r.graphs3d_noised |-> r.heap[r.graphs3d_noised[k]]]),
        targets |-> IF with_targets THEN [k \in DOMAIN b |-> b[k][3]] ELSE NoValue]

\* the noise of one copy over num_edges edge weights
NoiseVectors(num_edges) ==
    { [e \in 1..num_edges |-> IF e % 2 = 1 THEN odd ELSE even] : odd, even \in {-1, 1} }

\* a sample of the contrastive datasets: the bonded graph, the complete 3D
\* graph with its distances, a target
ContrastiveSamples == { <<ChainGraph(n), CompleteGraph(n), n % 2>> : n \in 2..MaxAtoms }

NoisedDistances ==
    /\ phase = "collate"
    /\ \E b \in Batches(ContrastiveSamples), num_noised \in 0..MaxNoised, with_targets \in BOOLEAN :
          LET num_edges == SumSeq([k \in DOMAIN b |-> Len(b[k][2].src)])
          IN \E noises \in [1..num_noised -> NoiseVectors(num_edges)] :
                /\ batch' = [call |-> "noised_distances", samples |-> b,
                             num_noised |-> num_noised, noises |-> noises]
                /\ out' = [call |-> "noised_distances",
                           value |-> NoisedDistancesCollate(b, noises, with_targets)]
    /\ phase' = "collated"
    /\ UNCHANGED <<trainer, raw, proc, data_dict, ds, ret>>

\* pad_sequence(sequences, batch_first=True): zero rows up to the longest
PadSequence(seqs) ==
    LET max_len == Max({Len(seqs[k]) : k \in DOMAIN seqs})
    IN [k \in DOMAIN seqs |->
          [j \in 1..max_len |-> IF j <= Len(seqs[k]) THEN seqs[k][j] ELSE 0]]

\* (faulty variant) > for >=
MaskAtStrict(position, n_atoms) == position > n_atoms

\* torch.arange(max_len)[None, :] >= n_atoms[:, None], at one position
MaskAt(position, n_atoms) == position >= n_atoms

\* padded_collate(batch)
padded_collate(b) ==
    LET features == PadSequence([k \in DOMAIN b |-> b[k][1]])
        n_atoms == [k \in DOMAIN b |-> Len(b[k][1])]
        positions == Arange(Len(features[1]))
    IN [features |-> features,
        mask |-> [k \in DOMAIN b |-> [j \in DOMAIN positions |-> MaskAt(positions[j], n_atoms[k])]],
        target |-> [k \in DOMAIN b |-> b[k][2]]]

\* a sample of padded_collate: len rows of features, the first one first_row,
\* and a target
SequenceSamples ==
    { << [j \in 1..len |-> first_row + j - 1], first_row >> :
        len \in 1..MaxSeqLen, first_row \in TargetValues }

PaddedCollate ==
    /\ phase = "collate"
    /\ \E b \in Batches(SequenceSamples) :
          /\ batch' = [call |-> "padded_collate", samples |-> b]
          /\ out' = [call |-> "padded_collate", value |-> padded_collate(b)]
    /\ phase' = "collated"
    /\ UNCHANGED <<trainer, raw, proc, data_dict, ds, ret>>

\* graph.remove_nodes(nids): the nodes named by nids (a node named twice is
\* removed once) go with their edges; the nodes and edges left keep their order
\* and their data, the nodes being renumbered from 0
RemoveNodes(g, nids) ==
    LET removed == Range(nids)
        kept_nodes == SelectSeq(Arange(g.num_nodes), LAMBDA v : v \notin removed)
        kept_edges == SelectSeq([e \in DOMAIN g.src |-> e],
                                LAMBDA e : g.src[e] \notin removed /\ g.dst[e] \notin removed)
        new_id(v) == (CHOOSE k \in DOMAIN kept_nodes : kept_nodes[k] = v) - 1
        of_nodes(f) == IF f = NoValue THEN NoValue
                       ELSE [k \in DOMAIN kept_nodes |-> f[kept_nodes[k] + 1]]
        of_edges(f) == IF f = NoValue THEN NoValue
                       ELSE [k \in DOMAIN kept_edges |-> f[kept_edges[k]]]
    IN [g EXCEPT !.num_nodes = Len(kept_nodes),
                 !.src = [k \in DOMAIN kept_edges |-> new_id(g.src[kept_edges[k]])],
                 !.dst = [k \in DOMAIN kept_edges |-> new_id(g.dst[kept_edges[k]])],
                 !.nfeat = of_nodes(g.nfeat), !.x = of_nodes(g.x),
                 !.feat = of_edges(g.feat), !.d = of_edges(g.d), !.w = of_edges(g.w)]

\* "if remove_number > 0: graph.remove_nodes(remove_indices)", in place
DropNodes(g, remove_indices) ==
    IF Len(remove_indices) > 0 THEN RemoveNodes(g, remove_indices) ELSE g

\* what the two torch.randint calls can draw for one graph: remove_number in
\* [0, num_drop) and that many node numbers in [0, number_of_nodes)
Draws(g, num_drop) ==
    UNION { [1..remove_number -> 0..(g.num_nodes - 1)] : remove_number \in 0..(num_drop - 1) }

\* NodeDrop3dCollate(num_drop)(batch) and NodeDrop2dCollate(num_drop)(batch):
\* the graphs of the dropped side after the loop, and the two batches
NodeDropCollate(b, which, draws) ==
    LET graphs == [k \in DOMAIN b |-> IF which = "2d" THEN DropNodes(b[k][1], draws[k]) ELSE b[k][1]]
        graphs3d == [k \in DOMAIN b |-> IF which = "3d" THEN DropNodes(b[k][2], draws[k]) ELSE b[k][2]]
    IN [graphs |-> graphs, graphs3d |-> graphs3d,
        graph |-> DglBatch(graphs), graph3d |-> DglBatch(graphs3d)]

\* a sample of the node-drop collates: the bonded graph and the complete 3D graph
DropSamples == { <<ChainGraph(n), CompleteGraph(n)>> : n \in 2..MaxAtoms }

\* the graph of sample k the collate which drops nodes from
DropSide(b, which, k) == IF which = "2d" THEN b[k][1] ELSE b[k][2]

NodeDrop ==
    /\ phase = "collate"
    /\ \E b \in [1..1 -> DropSamples] \cup [1..2 -> DropSamples],
          which \in {"2d", "3d"}, num_drop \in 1..MaxDrop :
          \E first \in Draws(DropSide(b, which, 1), num_drop) :
             \E second \in (IF Len(b) = 2 THEN Draws(DropSide(b, which, 2), num_drop) ELSE {<<>>}) :
                LET draws == IF Len(b) = 2 THEN <<first, second>> ELSE <<first>>
                IN /\ batch' = [call |-> "node_drop", samples |-> b, which |-> which,
                                num_drop |-> num_drop, draws |-> draws]
                   /\ out' = [call |-> "node_drop", value |-> NodeDropCollate(b, which, draws)]
    /\ phase' = "collated"
    /\ UNCHANGED <<trainer, raw, proc, data_dict, ds, ret>>

\* (faulty variant) the first conformer's columns for every replica
ConformerColumnsFirst(row, i) == SubSeq(row, 1, 3)

\* conformers[:, i * 3:(i + 1) * 3], at one row
ConformerColumns(row, i) == SubSeq(row, 3 * i + 1, 3 * i + 3)

\* the loop "for i in range(1, self.num_conformers)": the heap and the list
\* conformer_graphs
RECURSIVE ConformerCopies(_, _, _, _, _)
ConformerCopies(heap, conformer_graphs, conformers, i, num_conformers) ==
    IF i >= num_conformers THEN [heap |-> heap, conformer_graphs |-> conformer_graphs]
    ELSE LET c == DeepCopy(heap, 1)
             positions == [v \in DOMAIN conformers |-> ConformerColumns(conformers[v], i)]
         IN ConformerCopies([c.heap EXCEPT ![c.ref].x = positions],
                            Append(conformer_graphs, c.ref), conformers, i + 1, num_conformers)

\* ConformerCollate(num_conformers)(batch)
ConformerCollate(b, num_conformers, with_targets) ==
    LET conformers == Flatten([k \in DOMAIN b |-> b[k][3]])
        batched_graph3d == DglBatch([k \in DOMAIN b |-> b[k][2]])
        r == ConformerCopies(<<batched_graph3d>>, <<1>>, conformers, 1, num_conformers)
    IN [graph |-> DglBatch([k \in DOMAIN b |-> b[k][1]]),
        graph3d |-> DglBatch([k \in DOMAIN r.conformer_graphs |-> r.heap[r.conformer_graphs[k]]]),
        targets |-> IF with_targets THEN [k \in DOMAIN b |-> b[k][4]] ELSE NoValue]

\* the conformer rows of a molecule of n atoms: 3 * num_conformers numbers per atom
ConformerRows(n, num_conformers) ==
    [a \in 1..n |-> [c \in 1..(3 * num_conformers) |-> 100 * n + 10 * a + c]]

\* a sample of a conformer dataset: the bonded graph, the complete 3D graph with
\* positions (those of the first conformer, or other ones), the conformer rows
\* and a target
ConformerSamples(num_conformers) ==
    { << ChainGraph(n),
         [CompleteGraph(n) EXCEPT !.x =
             [a \in 1..n |-> IF first THEN ConformerColumns(ConformerRows(n, num_conformers)[a], 0)
                             ELSE <<a, a, a>>]],
         ConformerRows(n, num_conformers), n % 2 >> :
        n \in 2..MaxAtoms, first \in BOOLEAN }

Conformer ==
    /\ phase = "collate"
    /\ \E num_conformers \in 1..MaxConformers, with_targets \in BOOLEAN :
          \E b \in [1..1 -> ConformerSamples(num_conformers)]
                     \cup [1..2 -> ConformerSamples(num_conformers)] :
             /\ batch' = [call |-> "conformer", samples |-> b, num_conformers |-> num_conformers]
             /\ out' = [call |-> "conformer",
                        value |-> ConformerCollate(b, num_conformers, with_targets)]
    /\ phase' = "collated"
    /\ UNCHANGED <<trainer, raw, proc, data_dict, ds, ret>>

InitCollate ==
    /\ phase = "collate"
    /\ raw = <<>>
    /\ proc = ProcInit
    /\ data_dict = NoArtifact
    /\ ds = DsNone
    /\ ret = NoCall
    /\ batch = NoCall
    /\ out = NoCall
    /\ trainer = NoTrainer

\* one collate call per behaviour: the functions keep no state between calls
NextCollate == GraphCollate \/ NoisedDistances \/ PaddedCollate \/ NodeDrop \/ Conformer

SpecCollate == InitCollate /\ [][NextCollate]_vars

ConstructViews ==
    /\ phase = "views_new"
    \* return_types: one kind, several kinds, a kind twice, two graph kinds (the
    \* samples of the node-drop collates), kinds data_by_type has no value for
    /\ \E rt \in { <<"mol_graph", "targets">>, <<"targets", "coordinates", "targets">>,
                  <<"mol_id", "raw_features", "smiles">>, <<"complete_graph">>,
                  <<"mol_complete_graph">>, <<"mol_graph", "complete_graph3d">>,
                  <<"mol_graph", "mol_graph3d">>, <<"coordinates", "edge_indices">>,
                  <<"atomic_number_long">>, <<"san_graph">>, <<"se3Transformer_graph">>,
                  <<"se3Transformer_graph3d">> },
          dev \in Devices, pf \in BOOLEAN :
          ConstructFrom(Args(rt, <<>>, TRUE, dev, pf))

\* a node-drop collate on the graph objects of one sample (graph, graph3d): the
\* object of the dropped side is changed in place, so the list of the dataset
\* that holds it, and the other entry when it is the same object, change with it
NodeDropOnObjects(d, sample, which, draw) ==
    LET target == IF which = "2d" THEN sample[1] ELSE sample[2]
        dropped == DropNodes(target, draw)
        d2 == StoreBack(d, dropped)
        graph == IF which = "2d" THEN dropped ELSE Deref(d2, sample[1])
        graph3d == IF which = "3d" THEN dropped ELSE Deref(d2, sample[2])
    IN [d |-> d2, graphs |-> <<graph>>, graphs3d |-> <<graph3d>>,
        graph |-> DglBatch(<<graph>>), graph3d |-> DglBatch(<<graph3d>>)]

\* the tuple get(index) returned last is batched by a node-drop collate
NodeDropItems ==
    /\ phase = "dataset"
    /\ ds.state = "ready"
    /\ out = NoCall
    /\ ret.call = "getitem"
    /\ ret.value.kind = "tuple"
    /\ Len(ds.return_types) = 2
    /\ \A j \in 1..2 : ds.return_types[j] \in GraphKinds \ {"mol_complete_graph"}
    /\ \E which \in {"2d", "3d"}, num_drop \in 1..MaxDrop :
          \E draw \in Draws(IF which = "2d" THEN ret.value.data[1] ELSE ret.value.data[2], num_drop) :
             \E r \in {NodeDropOnObjects(ds, ret.value.data, which, draw)} :
                /\ ds' = r.d
                /\ batch' = [call |-> "node_drop", samples |-> <<ret.value.data>>,
                             which |-> which, num_drop |-> num_drop, draws |-> <<draw>>]
                /\ out' = [call |-> "node_drop",
                           value |-> [graphs |-> r.graphs, graphs3d |-> r.graphs3d,
                                      graph |-> r.graph, graph3d |-> r.graph3d]]
    /\ UNCHANGED <<trainer, phase, raw, proc, data_dict, ret>>

NextViews == ConstructViews \/ GetItem \/ NodeDropItems

SpecViews == InitDatasetFrom(RawMolecules, "views_new") /\ [][NextViews]_vars

(***************************************************************************)
(* trainer.py: Trainer.__init__ without a checkpoint to resume from, and   *)
(* Trainer.train.  One step is one epoch of the loop; a validation score   *)
(* is a float (nan when the loss diverged).                                *)
(***************************************************************************)
\* a <= b on floats: false when either is nan
ScoreLeq(a, b) ==
    /\ a.tag # "nan"
    /\ b.tag # "nan"
    /\ \/ a = b
       \/ a.tag = "inf" /\ a.num < 0
       \/ b.tag = "inf" /\ b.num > 0
       \/ a.tag = "fin" /\ b.tag = "fin" /\ a.num <= b.num

\* no file of that name in the log directory
NoCheckpoint == [epoch |-> 0]

\* Trainer(...) with args.checkpoint not set: lines 52-55, and the locals of train()
Trainer(main_metric_goal, patience, num_epochs, train_batches) ==
    [state |-> "train",
     main_metric_goal |-> main_metric_goal,
     patience |-> patience,
     num_epochs |-> num_epochs,
     train_batches |-> train_batches,
     start_epoch |-> 1,
     optim_steps |-> 0,
     \* line 55: -np.inf if self.main_metric_goal == 'max' else np.inf
     best_val_score |-> IF main_metric_goal = "max" THEN Inf(-1) ELSE Inf(1),
     epoch |-> 1,
     epochs_no_improve |-> 0,
     stopped |-> FALSE,
     val_scores |-> <<>>,
     best_checkpoint |-> NoCheckpoint,
     last_checkpoint |-> NoCheckpoint,
     loaded |-> NoCheckpoint]

\* (faulty variant) every epoch counts as the best
ImprovesAlways(t, val_score) == TRUE

\* (faulty variant) a tie does not count
ImprovesStrictly(t, val_score) ==
    \/ ~ScoreLeq(val_score, t.best_val_score) /\ ScoreLeq(t.best_val_score, val_score)
          /\ t.main_metric_goal = "max"
    \/ ~ScoreLeq(t.best_val_score, val_score) /\ ScoreLeq(val_score, t.best_val_score)
          /\ t.main_metric_goal = "min"

\* the condition of line 103
Improves(t, val_score) ==
    \/ ScoreLeq(t.best_val_score, val_score) /\ t.main_metric_goal = "max"
    \/ ScoreLeq(val_score, t.best_val_score) /\ t.main_metric_goal = "min"

\* save_model_state: the dictionary torch.save writes (the fields modelled)
save_model_state(t, epoch) ==
    [epoch |-> epoch, best_val_score |-> t.best_val_score, optim_steps |-> t.optim_steps]

\* lines 103-114, on the trainer after predict() of the epoch
TrainEpochScored(t, val_score, improves) ==
    \E t1 \in {[t EXCEPT !.epochs_no_improve = IF improves THEN 0 ELSE @ + 1,
                         !.best_val_score = IF improves THEN val_score ELSE @,
                         !.val_scores = Append(@, val_score)]} :
       trainer' = [t1 EXCEPT !.best_checkpoint = IF improves THEN save_model_state(t1, t.epoch) ELSE @,
                             !.last_checkpoint = save_model_state(t1, t.epoch),
                             !.stopped = t1.epochs_no_improve >= t.patience,
                             !.epoch = IF t1.epochs_no_improve >= t.patience THEN @ ELSE @ + 1]

\* one epoch of the loop of train(): lines 81-114
TrainEpoch ==
    /\ phase = "trainer"
    /\ trainer.state = "train"
    /\ ~trainer.stopped
    /\ trainer.epoch <= trainer.num_epochs
    /\ \E val_score \in {Fin(v, 1, 0) : v \in 0..MaxScore} \cup {NaN} :
          TrainEpochScored([trainer EXCEPT !.optim_steps = @ + trainer.train_batches],
                           val_score, Improves(trainer, val_score))
    /\ UNCHANGED <<phase, raw, proc, data_dict, ds, ret, batch, out>>

\* after the loop, lines 117-119: torch.load of best_checkpoint.pt
TrainLoadBest ==
    /\ phase = "trainer"
    /\ trainer.state = "train"
    /\ trainer.stopped \/ trainer.epoch > trainer.num_epochs
    /\ trainer' = IF trainer.best_checkpoint = NoCheckpoint
                  THEN [trainer EXCEPT !.state = "FileNotFoundError"]
                  ELSE [trainer EXCEPT !.state = "evaluated", !.loaded = trainer.best_checkpoint]
    /\ UNCHANGED <<phase, raw, proc, data_dict, ds, ret, batch, out>>

InitTrainer ==
    /\ phase = "trainer"
    /\ raw = <<>>
    /\ proc = ProcInit
    /\ data_dict = NoArtifact
    /\ ds = DsNone
    /\ ret = NoCall
    /\ batch = NoCall
    /\ out = NoCall
    /\ trainer \in { Trainer(goal, patience, num_epochs, train_batches) :
                        goal \in {"min", "max"}, patience \in 0..MaxPatience,
                        num_epochs \in 0..MaxEpochs, train_batches \in 1..MaxTrainBatches }

NextTrainer == TrainEpoch \/ TrainLoadBest

SpecTrainer == InitTrainer /\ [][NextTrainer]_vars

(***************************************************************************)
(* class_pre_trainer.py: CLASSTrainer.process_batch.  Every optimizer      *)
(* counts the steps it took.                                               *)
(***************************************************************************)
\* CLASSTrainer(...) with args.checkpoint not set
CLASSTrainer(iterations_per_model, decoder, decoder2) ==
    [state |-> "class",
     iterations_per_model |-> iterations_per_model,
     decoder |-> decoder,
     decoder2 |-> decoder2,
     optim_steps |-> 0,
     steps |-> [o \in {"optim", "optim2", "optim_critic", "optim_critic2",
                       "optim_decoder", "optim_decoder2"} |-> 0],
     call |-> NoCall]

\* (faulty variant) the sides take turns batch by batch
ModelATurnEveryOther(optim_steps, iterations_per_model) == optim_steps % 2 = 0

\* the condition of line 81
ModelATurn(optim_steps, iterations_per_model) ==
    (optim_steps \div iterations_per_model) % 2 = 0

\* the optimizers process_batch steps: lines 55-109
SteppedOptimizers(t, decoderA_loss, decoderB_loss) ==
    IF t.iterations_per_model = 0
    THEN {"optim", "optim2", "optim_critic", "optim_critic2"}
            \cup (IF decoderA_loss THEN {"optim_decoder"} ELSE {})
            \cup (IF decoderB_loss THEN {"optim_decoder2"} ELSE {})
    ELSE IF ModelATurn(t.optim_steps, t.iterations_per_model)
    THEN {"optim", "optim_critic"} \cup (IF decoderA_loss THEN {"optim_decoder"} ELSE {})
    ELSE {"optim2", "optim_critic2"} \cup (IF decoderB_loss THEN {"optim_decoder2"} ELSE {})

\* process_batch(batch, optim): optim is whether an optimizer is passed
process_batch(t, optim, decoderA_loss, decoderB_loss) ==
    IF ~optim THEN [t EXCEPT !.call = [call |-> "process_batch", optim |-> FALSE,
                                       optim_steps |-> t.optim_steps, stepped |-> {}]]
    ELSE [t EXCEPT !.steps = [o \in DOMAIN @ |->
                                IF o \in SteppedOptimizers(t, decoderA_loss, decoderB_loss)
                                THEN @[o] + 1 ELSE @[o]],
                   !.optim_steps = @ + 1,
                   !.call = [call |-> "process_batch", optim |-> TRUE,
                             optim_steps |-> t.optim_steps,
                             stepped |-> SteppedOptimizers(t, decoderA_loss, decoderB_loss)]]

\* a training batch: predict() passes self.optim
ClassTrainBatch ==
    /\ phase = "class_trainer"
    /\ trainer.optim_steps < MaxOptimSteps
    /\ \E decoderA_loss \in (IF trainer.decoder THEN BOOLEAN ELSE {FALSE}),
          decoderB_loss \in (IF trainer.decoder2 THEN BOOLEAN ELSE {FALSE}) :
          trainer' = process_batch(trainer, TRUE, decoderA_loss, decoderB_loss)
    /\ UNCHANGED <<phase, raw, proc, data_dict, ds, ret, batch, out>>

\* a batch of run_per_epoch_evaluations: process_batch(batch, optim=None)
ClassEvalBatch ==
    /\ phase = "class_trainer"
    /\ \E decoderA_loss \in (IF trainer.decoder THEN BOOLEAN ELSE {FALSE}),
          decoderB_loss \in (IF trainer.decoder2 THEN BOOLEAN ELSE {FALSE}) :
          trainer' = process_batch(trainer, FALSE, decoderA_loss, decoderB_loss)
    /\ UNCHANGED <<phase, raw, proc, data_dict, ds, ret, batch, out>>

InitClassTrainer ==
    /\ phase = "class_trainer"
    /\ raw = <<>>
    /\ proc = ProcInit
    /\ data_dict = NoArtifact
    /\ ds = DsNone
    /\ ret = NoCall
    /\ batch = NoCall
    /\ out = NoCall
    /\ trainer \in { CLASSTrainer(k, decoder, decoder2) :
                        k \in 0..MaxIterationsPerModel, decoder \in BOOLEAN, decoder2 \in BOOLEAN }

NextClassTrainer == ClassTrainBatch \/ ClassEvalBatch

SpecClassTrainer == InitClassTrainer /\ [][NextClassTrainer]_vars

(***************************************************************************)
(* Properties of process().                                                *)
(***************************************************************************)
\* the ranges [slices[i], slices[i+1]) partition [0, total): every row lies in
\* exactly one of them
Partitions(slices, total) ==
    /\ \A r \in 0..(total - 1) :
          Cardinality({i \in 1..(Len(slices) - 1) : slices[i] <= r /\ r < slices[i + 1]}) = 1
    /\ \A i \in 1..(Len(slices) - 1) :
          \A r \in slices[i]..(slices[i + 1] - 1) : 0 <= r /\ r < total

NonDecreasing(s) == \A i \in 1..(Len(s) - 1) : s[i] <= s[i + 1]

\* C1: in the store process() persists, atom_slices[i+1] - atom_slices[i] = n_atoms[i]
\* for every molecule, both slice arrays start at 0, are non-decreasing and have
\* molecule_count + 1 entries, and their ranges partition [0, total_atoms) and
\* [0, total_edges) without gap or overlap.
C1_SlicesPartitionStore ==
    phase = "process_saved" =>
        LET a == data_dict.atom_slices
            e == data_dict.edge_slices
            n == data_dict.n_atoms
        IN /\ Len(a) = Len(n) + 1
           /\ Len(e) = Len(n) + 1
           /\ a[1] = 0
           /\ e[1] = 0
           /\ \A i \in DOMAIN n : a[i + 1] - a[i] = n[i]
           /\ NonDecreasing(a)
           /\ NonDecreasing(e)
           /\ proc.total_atoms = SumSeq(n)
           /\ proc.total_edges = Len(data_dict.edge_indices)
           /\ Partitions(a, proc.total_atoms)
           /\ Partitions(e, proc.total_edges)

\* a store of two molecules of different sizes, the second one with bonds
C1_Witness ==
    /\ phase = "process_saved"
    /\ Len(data_dict.n_atoms) = 2
    /\ data_dict.n_atoms[1] # data_dict.n_atoms[2]
    /\ data_dict.edge_slices[3] > data_dict.edge_slices[2]
    /\ data_dict.edge_slices[2] > 0

(***************************************************************************)
(* Properties of get_pairwise and of the memo.                             *)
(***************************************************************************)
\* every pair get_pairwise has produced: the entries of the memo and the pair
\* the last direct call returned
PairsProduced ==
    IF ds.state # "ready" THEN {}
    ELSE { [n |-> ds.pairwise[k].key.val, src |-> ds.pairwise[k].src, dst |-> ds.pairwise[k].dst] :
             k \in DOMAIN ds.pairwise }
         \cup (IF ret.call = "get_pairwise"
               THEN { [n |-> ret.n, src |-> ret.value.src, dst |-> ret.value.dst] }
               ELSE {})

\* C2: get_pairwise(n) returns src and dst of length n*(n-1), no pair is a
\* self-pair, every index lies in [0, n), and every ordered pair (x, y) with
\* x # y occurs exactly once.
C2_PairwiseAllPairsOnce ==
    \A p \in PairsProduced :
        /\ Len(p.src) = p.n * (p.n - 1)
        /\ Len(p.dst) = p.n * (p.n - 1)
        /\ \A k \in DOMAIN p.src :
              /\ p.src[k] # p.dst[k]
              /\ p.src[k] \in 0..(p.n - 1)
              /\ p.dst[k] \in 0..(p.n - 1)
        /\ \A x, y \in 0..(p.n - 1) :
              x # y => Cardinality({k \in DOMAIN p.src : p.src[k] = x /\ p.dst[k] = y}) = 1

\* a direct call for MaxAtoms atoms that computed its pair
C2_Witness ==
    /\ ret.call = "get_pairwise"
    /\ ret.n = MaxAtoms
    /\ ~ret.value.hit
    /\ Len(ret.value.src) = MaxAtoms * (MaxAtoms - 1)

\* C3: the pairs come in a fixed order: by source node (src is non-decreasing,
\* node 0 first), and within one source node by ascending destination, the
\* destinations of source x being exactly the other nodes.
C3_PairwiseOrder ==
    \A p \in PairsProduced :
        /\ \A k, l \in DOMAIN p.src :
              k < l => /\ p.src[k] <= p.src[l]
                       /\ (p.src[k] = p.src[l] => p.dst[k] < p.dst[l])
        /\ \A x \in 0..(p.n - 1) :
              {p.dst[k] : k \in {j \in DOMAIN p.src : p.src[j] = x}} = (0..(p.n - 1)) \ {x}
        /\ (p.n >= 2 => p.src[1] = 0 /\ p.dst[1] = 1)

\* a pair stored by a get(index) on a molecule of MaxAtoms atoms
C3_Witness ==
    /\ ds.state = "ready"
    /\ ret.call = "getitem"
    /\ \E k \in DOMAIN ds.pairwise :
          /\ ds.pairwise[k].key.kind = "tensor"
          /\ ds.pairwise[k].key.val = MaxAtoms
          /\ Len(ds.pairwise[k].src) = MaxAtoms * (MaxAtoms - 1)

\* the atom count a call on the dataset is about
CallAtomCount(d, r) == IF r.call = "getitem" THEN d.n_atoms[r.idx + 1] ELSE r.n

HasCount(pairwise, n) == \E k \in DOMAIN pairwise : pairwise[k].key.val = n

\* C4: get_pairwise is memoized: a call on the dataset (a direct call, or a
\* get(index) for a molecule of that size) whose atom count already has a pair in
\* the memo leaves the memo as it is (nothing recomputed, no entry added), and
\* the pairs held for one atom count are identical sequences.
C4_Memoized ==
    [][ (phase = "dataset" /\ ds.state = "ready" /\ ds'.calls = ds.calls + 1) =>
            /\ (HasCount(ds.pairwise, CallAtomCount(ds, ret')) => ds'.pairwise = ds.pairwise)
            /\ \A k, l \in DOMAIN ds'.pairwise :
                  ds'.pairwise[k].key.val = ds'.pairwise[l].key.val =>
                      /\ ds'.pairwise[k].src = ds'.pairwise[l].src
                      /\ ds'.pairwise[k].dst = ds'.pairwise[l].dst ]_vars

IsPrefix(s, t) == Len(s) <= Len(t) /\ SubSeq(t, 1, Len(s)) = s

OnlyDatasetKeys(pairwise) == \A k \in DOMAIN pairwise : pairwise[k].key.kind = "tensor"

\* C5: after construction and any sequence of get(index) calls (no other caller
\* of get_pairwise), the memo never loses an entry and never holds more entries
\* than there are distinct atom counts among the store's molecules.
C5_MemoMonotoneBounded ==
    [][ ds'.state = "ready" =>
            /\ (ds.state = "ready" => IsPrefix(ds.pairwise, ds'.pairwise))
            /\ (OnlyDatasetKeys(ds'.pairwise) =>
                    Len(ds'.pairwise) <= Cardinality(Range(ds'.n_atoms))) ]_vars

(***************************************************************************)
(* Properties of data_by_type.                                             *)
(***************************************************************************)
\* the stored feature vector of molecule idx's bond a -> b, NoValue without one
StoredBondFeature(d, idx, a, b) ==
    LET es == {e \in (d.edge_slices[idx + 1] + 1)..d.edge_slices[idx + 2] :
                  d.edge_indices[e] = <<a, b>>}
    IN IF es = {} THEN NoValue ELSE d.e_features_tensor[CHOOSE e \in es : TRUE]

\* C6: get(index) with return-kind 'complete_graph' returns a graph whose k-th
\* edge feature row is the stored bond feature vector when its edge (a, b) is a
\* real bond of the molecule, and the padding vector, of the width of a bond
\* feature vector, for every other edge.
C6_CompleteGraphEdgeFeatures ==
    ret.call = "getitem" =>
        \A j \in DOMAIN ds.return_types :
            ds.return_types[j] = "complete_graph" =>
                /\ ret.value.kind = "tuple"
                /\ LET g == ret.value.data[j]
                   IN /\ Len(g.feat) = Len(g.src)
                      /\ \A k \in DOMAIN g.src :
                            LET f == StoredBondFeature(ds, ret.idx, g.src[k], g.dst[k])
                            IN IF f # NoValue THEN g.feat[k] = f
                               ELSE /\ g.feat[k] = ds.bond_padding_indices
                                    /\ Len(g.feat[k]) = BondFeatureWidth

(***************************************************************************)
(* Properties of the collate functions.                                    *)
(***************************************************************************)
\* the graphs at place "which" of the samples of the last collate call
BatchGraphs(which) == [k \in DOMAIN batch.samples |-> batch.samples[k][which]]

\* nodes (edges) of the graphs before graph j
NodesBefore(graphs, j) == SumSeq([i \in 1..(j - 1) |-> graphs[i].num_nodes])

EdgesBefore(graphs, j) == SumSeq([i \in 1..(j - 1) |-> Len(graphs[i].src)])

\* C7: graph_collate on k samples returns one graph with sum(n_i) nodes and
\* sum(e_i) edges, in which the edges of graph j are its own edges with both
\* endpoints offset by n_1 + .. + n_(j-1), so every edge has both endpoints in the
\* node range of one source graph; the targets are stacked in batch order.
C7_GraphCollateDisjointUnion ==
    out.call = "graph_collate" =>
        LET gs == BatchGraphs(1)
            g == out.value.graph
        IN /\ g.num_nodes = SumSeq([j \in DOMAIN gs |-> gs[j].num_nodes])
           /\ Len(g.src) = SumSeq([j \in DOMAIN gs |-> Len(gs[j].src)])
           /\ Len(g.dst) = Len(g.src)
           /\ \A j \in DOMAIN gs : \A k \in DOMAIN gs[j].src :
                 /\ g.src[EdgesBefore(gs, j) + k] = gs[j].src[k] + NodesBefore(gs, j)
                 /\ g.dst[EdgesBefore(gs, j) + k] = gs[j].dst[k] + NodesBefore(gs, j)
           /\ \A e \in DOMAIN g.src : \E j \in DOMAIN gs :
                 /\ NodesBefore(gs, j) <= g.src[e]
                 /\ g.src[e] < NodesBefore(gs, j) + gs[j].num_nodes
                 /\ NodesBefore(gs, j) <= g.dst[e]
                 /\ g.dst[e] < NodesBefore(gs, j) + gs[j].num_nodes
           /\ out.value.targets = [j \in DOMAIN gs |-> batch.samples[j][2]]

\* three graphs batched, the later ones with edges
C7_Witness ==
    /\ out.call = "graph_collate"
    /\ Len(batch.samples) = 3
    /\ Len(batch.samples[2][1].src) > 0
    /\ Len(batch.samples[3][1].src) > 0
    /\ out.value.graph.num_nodes > batch.samples[1][1].num_nodes

\* C8: NoisedDistancesCollate with num_noised = m returns a 3D graph of (m + 1)
\* times the nodes (and edges) of the batch of the samples' 3D graphs, and the
\* edge weights of its first replica are the input weights, unchanged.
C8_NoisedDistancesReplicas ==
    out.call = "noised_distances" =>
        LET gs == BatchGraphs(2)
            num_nodes == SumSeq([j \in DOMAIN gs |-> gs[j].num_nodes])
            num_edges == SumSeq([j \in DOMAIN gs |-> Len(gs[j].src)])
            g == out.value.graph3d
        IN /\ g.num_nodes = (batch.num_noised + 1) * num_nodes
           /\ Len(g.w) = (batch.num_noised + 1) * num_edges
           /\ SubSeq(g.w, 1, num_edges) = Flatten([j \in DOMAIN gs |-> gs[j].w])

\* MaxNoised noised copies of a batch of two samples, the copies' weights changed
C8_Witness ==
    /\ out.call = "noised_distances"
    /\ batch.num_noised = MaxNoised
    /\ Len(batch.samples) = 2
    /\ LET g == out.value.graph3d
           num_edges == Len(g.w) \div (MaxNoised + 1)
       IN SubSeq(g.w, num_edges + 1, 2 * num_edges) # SubSeq(g.w, 1, num_edges)

\* the number of true entries of one row of a mask
RowSum(row) == Cardinality({j \in DOMAIN row : row[j]})

\* C9: padded_collate on sequences of lengths l_1..l_k returns the features
\* right-padded with zero rows to max(l_i) and a mask of shape [k, max(l_i)] that
\* is true at (b, j) exactly when j >= l_b (positions from 0), so row b has
\* max(l_i) - l_b true entries; lengths [3, 5, 2] give shape [3, 5] and row sums
\* [2, 0, 3].
C9_PaddedCollateMask ==
    out.call = "padded_collate" =>
        LET seqs == BatchGraphs(1)
            lens == [b \in DOMAIN seqs |-> Len(seqs[b])]
            max_len == Max(Range(lens))
            f == out.value.features
            mask == out.value.mask
        IN /\ Len(f) = Len(seqs)
           /\ Len(mask) = Len(seqs)
           /\ \A b \in DOMAIN seqs :
                 /\ Len(f[b]) = max_len
                 /\ Len(mask[b]) = max_len
                 /\ \A j \in 1..max_len :
                       /\ mask[b][j] = (j - 1 >= lens[b])
                       /\ f[b][j] = (IF j <= lens[b] THEN seqs[b][j] ELSE 0)
                 /\ RowSum(mask[b]) = max_len - lens[b]
           /\ (lens = <<3, 5, 2>> =>
                 /\ Len(mask) = 3
                 /\ Len(mask[1]) = 5
                 /\ [b \in DOMAIN mask |-> RowSum(mask[b])] = <<2, 0, 3>>)

\* the batch of lengths [3, 5, 2]
C9_Witness ==
    /\ out.call = "padded_collate"
    /\ [b \in DOMAIN batch.samples |-> Len(batch.samples[b][1])] = <<3, 5, 2>>
    /\ [b \in DOMAIN out.value.mask |-> RowSum(out.value.mask[b])] = <<2, 0, 3>>

(***************************************************************************)
(* Properties of the targets.                                              *)
(***************************************************************************)
\* prediction * std + mean, the de-normalization of the consumers
Denormalize(x, mean, std) == NumAdd(NumMulStd(x, std), mean)

\* the canonical (un-normalized) target of molecule m for the j-th requested task
CanonicalTarget(m, j) == Fin(data_dict.targets[m][ds.task_indices[j]], 1, 0)

\* C10 as stated: with normalization, stored * targets_std + targets_mean equals the
\* canonical target for every molecule and requested property; without, the
\* stored targets are the canonical targets.
C10_RoundTripEveryProperty ==
    ds.state = "ready" =>
        \A m \in DOMAIN ds.targets : \A j \in DOMAIN ds.target_tasks :
            IF ds.normalize
            THEN Denormalize(ds.targets[m][j], ds.targets_mean[j], ds.targets_std[j])
                     = CanonicalTarget(m, j)
            ELSE ds.targets[m][j] = CanonicalTarget(m, j)

\* the std of the j-th requested property is a positive number: the store has two
\* molecules or more and they do not all have the same value
NonDegenerate(j) ==
    /\ Len(data_dict.targets) >= 2
    /\ \E m \in DOMAIN data_dict.targets :
          data_dict.targets[m][ds.task_indices[j]] # data_dict.targets[1][ds.task_indices[j]]

\* C10 (amended): with normalization, stored * targets_std + targets_mean equals the
\* canonical target for every molecule and every requested property whose
\* standard deviation over the table is non-zero (two molecules or more, not all
\* of one value), the mean being the mean of the canonical column; without
\* normalization the stored targets are the canonical targets.
C10_RoundTripNonDegenerate ==
    ds.state = "ready" =>
        \A m \in DOMAIN ds.targets : \A j \in DOMAIN ds.target_tasks :
            /\ Len(ds.targets[m]) = Len(ds.target_tasks)
            /\ IF ds.normalize
               THEN NonDegenerate(j) =>
                       /\ Denormalize(ds.targets[m][j], ds.targets_mean[j], ds.targets_std[j])
                              = CanonicalTarget(m, j)
                       /\ ds.targets_std[j] = Sigma
                       /\ ds.targets_mean[j] =
                              Fin(SumSeq([k \in DOMAIN data_dict.targets |->
                                            data_dict.targets[k][ds.task_indices[j]]]),
                                  Len(data_dict.targets), 0)
               ELSE ds.targets[m][j] = CanonicalTarget(m, j)

\* a normalized dataset of two molecules with a non-constant energy column whose
\* stored value differs from the canonical one, returned by get(index)
C10_Witness ==
    /\ ds.state = "ready"
    /\ ds.normalize
    /\ ds.target_tasks = <<"homo", "mu">>
    /\ NonDegenerate(1)
    /\ ret.call = "getitem"
    /\ ret.value.kind = "tuple"
    /\ ret.value.data[2] = ds.targets[ret.idx + 1]
    /\ ds.targets[ret.idx + 1][1] # CanonicalTarget(ret.idx + 1, 1)

(***************************************************************************)
(* Properties of the build: a molecule that does not parse.                *)
(***************************************************************************)
\* C18: when a molecule's string does not parse, process() aborts at that
\* molecule (the first such one, every earlier one having been processed) and
\* persists nothing; the artifact exists after process() only if every molecule
\* of the raw dataset was processed.
C18_ParseFailureNoArtifact ==
    /\ phase \in {"process", "process_failed", "process_saved"} =>
          \A m \in 1..Len(proc.N) : raw[m].parses
    /\ phase = "process_failed" => data_dict = NoArtifact
    /\ (\E m \in DOMAIN raw : ~raw[m].parses) =>
          data_dict = NoArtifact /\ phase # "process_saved"
    /\ data_dict # NoArtifact =>
          /\ \A m \in DOMAIN raw : raw[m].parses
          /\ data_dict.n_atoms = [m \in DOMAIN raw |-> raw[m].N]

\* the second molecule did not parse: the first was processed, nothing is saved
C18_Witness ==
    /\ phase = "process_failed"
    /\ Len(proc.N) = 1
    /\ ~raw[2].parses
    /\ data_dict = NoArtifact

(***************************************************************************)
(* Properties of the construction.                                         *)
(***************************************************************************)
\* the arguments name a return kind outside return_type_options
UnknownReturnType(args) ==
    \E k \in DOMAIN args.return_types : args.return_types[k] \notin ReturnTypeOptions

\* the arguments name a target outside the unit-conversion table
UnknownTargetTask(args) ==
    \E k \in DOMAIN args.target_tasks : args.target_tasks[k] \notin Range(UnitConversionKeys)

\* C12: a construction with a return kind outside return_type_options or a
\* target name outside the unit-conversion table raises; it does so before
\* process() is run or the store is loaded (so before any prefetch), and the
\* processed file is left as it was.
C12_ValidationAtConstruction ==
    [][ (phase = "lifecycle_new" /\ phase' = "dataset"
            /\ (UnknownReturnType(ds'.args) \/ UnknownTargetTask(ds'.args))) =>
            /\ ds'.state = "error"
            /\ ds'.error \in {"return_type not supported", "AssertionError"}
            /\ ds'.events = <<>>
            /\ data_dict' = data_dict ]_vars

\* an unknown target name among known return kinds: the construction raised,
\* with the processed file still missing
C12_Witness ==
    /\ phase = "dataset"
    /\ ds.state = "error"
    /\ ds.error = "AssertionError"
    /\ ~UnknownReturnType(ds.args)
    /\ UnknownTargetTask(ds.args)
    /\ data_dict = NoArtifact

\* C17: a construction (whose arguments are accepted) runs process() exactly
\* when the processed file is missing; the rebuild persists the artifact built
\* from the raw dataset before the load, and the object holds what was loaded;
\* a processed file that is present is loaded as it is, process() not being run.
C17_RebuildIffAbsent ==
    [][ (phase = "lifecycle_new" /\ phase' = "dataset"
            /\ ~UnknownReturnType(ds'.args) /\ ~UnknownTargetTask(ds'.args)) =>
            /\ (data_dict = NoArtifact) <=> ("process" \in Range(ds'.events))
            /\ ds'.state = "ready" =>
                  /\ data_dict' # NoArtifact
                  /\ ds'.events = IF data_dict = NoArtifact THEN <<"process", "load">>
                                   ELSE <<"load">>
                  /\ data_dict # NoArtifact => data_dict' = data_dict
                  /\ data_dict = NoArtifact =>
                        data_dict'.n_atoms = [m \in DOMAIN raw |-> raw[m].N]
                  /\ ds'.n_atoms = data_dict'.n_atoms
                  /\ ds'.edge_indices = data_dict'.edge_indices
            /\ ds'.state = "error" =>
                  /\ data_dict = NoArtifact
                  /\ data_dict' = NoArtifact
                  /\ ds'.events = <<"process">> ]_vars

\* a construction that found no processed file, rebuilt it and loaded it
C17_Witness ==
    /\ phase = "dataset"
    /\ ds.state = "ready"
    /\ ds.events = <<"process", "load">>
    /\ data_dict # NoArtifact
    /\ ds.n_atoms = [m \in DOMAIN raw |-> raw[m].N]

(***************************************************************************)
(* Properties of the target selection.                                     *)
(***************************************************************************)
\* the column of the raw csv that holds property task
CsvColumn(task) == CHOOSE p \in DOMAIN UnitConversionKeys : UnitConversionKeys[p] = task

\* molecule m's value of property task in canonical units, from the raw dataset
CanonicalValue(m, task) == raw[m].target[CsvColumn(task)] * UnitConversion(task)

\* the 'targets' entry expected for molecule m and the task list T: the canonical
\* values, normalized with the statistics of their columns when asked
ExpectedTargets(m, T, normalize) ==
    [j \in DOMAIN T |->
        LET column == [k \in DOMAIN raw |-> CanonicalValue(k, T[j])]
        IN IF normalize
           THEN NumDivStd(NumSub(Fin(column[m], 1, 0), ColumnMean(column)), ColumnStd(column))
           ELSE Fin(column[m], 1, 0)]

\* the scale factors expected for the task list T
ExpectedScale(T) == [j \in DOMAIN T |-> IF UnitConversion(T[j]) # 1 THEN 1000 ELSE 1]

\* get(i) of a dataset with return_types ('mol_graph', 'targets') answers the
\* task list T
TargetsAnswer(T) ==
    /\ ds.eV2meV = ExpectedScale(T)
    /\ (ret.call = "getitem" /\ ret.value.kind = "tuple") =>
          /\ Len(ret.value.data[2]) = Len(T)
          /\ ret.value.data[2] = ExpectedTargets(ret.idx + 1, T, ds.normalize)

\* C20 as stated: for every requested list T the 'targets' entry has len(T)
\* components, the j-th being the molecule's canonical value of T[j], and the
\* scale-factor vector is 1000 exactly at the energy-like properties of T.
C20_TargetSelectionEveryList ==
    (phase = "dataset" /\ ds.state = "ready") => TargetsAnswer(ds.args.target_tasks)

\* C20: the same for every non-empty list T; an empty (or missing) list stands
\* for the twelve default properties in their documented order.
C20_TargetSelection ==
    (phase = "dataset" /\ ds.state = "ready") =>
        TargetsAnswer(IF ds.args.target_tasks = <<>> THEN DefaultTargetTasks
                      ELSE ds.args.target_tasks)

\* get(i) for the list (gap, A, cv) without normalization: three components in
\* that order, the first scaled by the unit conversion, scale factors (1000, 1, 1)
C20_Witness ==
    /\ phase = "dataset"
    /\ ds.state = "ready"
    /\ ds.args.target_tasks = <<"gap", "A", "cv">>
    /\ ~ds.normalize
    /\ ret.call = "getitem"
    /\ ret.value.kind = "tuple"
    /\ Len(ret.value.data[2]) = 3
    /\ ds.eV2meV = <<1000, 1, 1>>
    /\ ret.value.data[2][1] # ret.value.data[2][2]

(***************************************************************************)
(* Properties of the node-drop and conformer collates.                     *)
(***************************************************************************)
\* C14: the node-drop collates draw for each graph of the dropped side a count r
\* in [0, num_drop) and remove exactly r distinct nodes of it before batching:
\* a graph of n nodes contributes n - r nodes to the batch, a graph with r = 0
\* is unchanged, and the graphs of the other side are batched as they are.
C14_NodeDropRemovesDrawnCount ==
    out.call = "node_drop" =>
        LET b == batch.samples
            before(k) == IF batch.which = "2d" THEN b[k][1] ELSE b[k][2]
            after(k) == IF batch.which = "2d" THEN out.value.graphs[k] ELSE out.value.graphs3d[k]
            r(k) == Len(batch.draws[k])
            dropped == IF batch.which = "2d" THEN out.value.graph ELSE out.value.graph3d
            other == IF batch.which = "2d" THEN out.value.graph3d ELSE out.value.graph
        IN /\ \A k \in DOMAIN b :
                 /\ r(k) \in 0..(batch.num_drop - 1)
                 /\ after(k).num_nodes = before(k).num_nodes - r(k)
                 /\ r(k) = 0 => after(k) = before(k)
           /\ dropped.num_nodes = SumSeq([k \in DOMAIN b |-> before(k).num_nodes - r(k)])
           /\ other.num_nodes =
                 SumSeq([k \in DOMAIN b |->
                           IF batch.which = "2d" THEN b[k][2].num_nodes ELSE b[k][1].num_nodes])

\* C15 as stated: the 3D batch of ConformerCollate(m) is m replicas of the
\* batched 3D graph, and the positions of replica j are the columns
\* [3j, 3j + 3) of the concatenated conformer rows, for every j in 0..m-1.
C15_ConformerEveryReplica ==
    out.call = "conformer" =>
        LET b == batch.samples
            m == batch.num_conformers
            N == SumSeq([k \in DOMAIN b |-> b[k][2].num_nodes])
            rows == Flatten([k \in DOMAIN b |-> b[k][3]])
            g == out.value.graph3d
        IN /\ g.num_nodes = m * N
           /\ Len(g.x) = m * N
           /\ \A j \in 0..(m - 1) : \A v \in 1..N :
                 g.x[j * N + v] = SubSeq(rows[v], 3 * j + 1, 3 * j + 3)

\* C15: for m >= 1 the 3D batch is m replicas of the batched 3D graph, merged by
\* disjoint union; replica 0 keeps the positions the 3D graphs came with, and
\* the positions of every replica j in 1..m-1 are the columns [3j, 3j + 3) of
\* the concatenated conformer rows.
C15_ConformerReplicas ==
    out.call = "conformer" =>
        LET b == batch.samples
            m == batch.num_conformers
            N == SumSeq([k \in DOMAIN b |-> b[k][2].num_nodes])
            rows == Flatten([k \in DOMAIN b |-> b[k][3]])
            positions == Flatten([k \in DOMAIN b |-> b[k][2].x])
            g == out.value.graph3d
        IN /\ g.num_nodes = m * N
           /\ Len(g.x) = m * N
           /\ Len(g.src) = m * SumSeq([k \in DOMAIN b |-> Len(b[k][2].src)])
           /\ \A v \in 1..N : g.x[v] = positions[v]
           /\ \A j \in 1..(m - 1) : \A v \in 1..N :
                 g.x[j * N + v] = SubSeq(rows[v], 3 * j + 1, 3 * j + 3)
           /\ \A j \in 0..(m - 1) :
                 \A e \in 1..(Len(g.src) \div m) :
                    /\ g.src[j * (Len(g.src) \div m) + e] = g.src[e] + j * N
                    /\ g.dst[j * (Len(g.dst) \div m) + e] = g.dst[e] + j * N

\* three conformers of a batch of two molecules whose 3D graphs came with
\* positions that are not the first conformer's
C15_Witness ==
    /\ out.call = "conformer"
    /\ batch.num_conformers = 3
    /\ Len(batch.samples) = 2
    /\ batch.samples[1][2].x[1] # SubSeq(batch.samples[1][3][1], 1, 3)
    /\ out.value.graph3d.num_nodes =
          3 * (batch.samples[1][2].num_nodes + batch.samples[2][2].num_nodes)

(***************************************************************************)
(* Properties of the entries of get(index).                                *)
(***************************************************************************)
\* the edges of a relation, as pairs
EdgePairs(src, dst) == [e \in DOMAIN src |-> <<src[e], dst[e]>>]

\* every ordered pair of distinct nodes of 0..n-1, once
IsAllPairs(src, dst, n) ==
    /\ Len(src) = n * (n - 1)
    /\ Len(dst) = Len(src)
    /\ Range(EdgePairs(src, dst)) = {<<a, b>> : a, b \in 0..(n - 1)} \ {<<a, a>> : a \in 0..(n - 1)}

\* the atoms of the raw molecules before molecule m
AtomsBefore(m) == SumSeq([k \in 1..(m - 1) |-> raw[k].N])

\* the coordinate rows of raw molecule m
CoordinatesOf(m) == SubSeq(RawCoordinates(raw), AtomsBefore(m) + 1, AtomsBefore(m) + raw[m].N)

\* C16: for return-kind 'mol_complete_graph', prefetched or not, the returned
\* heterograph has n_atoms nodes and two relations: 'bond' holds exactly the
\* stored edges of the molecule with the stored bond features, one per edge, and
\* 'complete' holds exactly the all-pairs edges of get_pairwise(n_atoms).
C16_MolCompleteGraphRelations ==
    ret.call = "getitem" =>
        \A j \in DOMAIN ds.return_types :
            ds.return_types[j] = "mol_complete_graph" =>
                /\ ret.value.kind = "tuple"
                /\ LET g == ret.value.data[j]
                       mol == raw[ret.idx + 1]
                   IN /\ g.num_nodes = mol.N
                      /\ EdgePairs(g.src, g.dst) = EdgesList(mol.bonds)
                      /\ g.feat = EdgeFeaturesList(mol.bonds)
                      /\ IsAllPairs(g.csrc, g.cdst, mol.N)

\* the return-kinds whose entry is a tensor or a graph
PlacedKinds == GraphKinds \cup {"raw_features", "coordinates", "targets"}

\* C19: every entry of the tuple get(index) returns that is a graph or a tensor
\* (graphs, raw_features, coordinates, targets) resides on the device the
\* dataset was constructed with, on every access.
C19_EntriesOnDevice ==
    (ret.call = "getitem" /\ ret.value.kind = "tuple") =>
        \A j \in DOMAIN ds.return_types :
            ds.return_types[j] \in PlacedKinds => ret.value.devices[j] = ds.device

\* the entry is the view of kind return_type of raw molecule m
IsViewOf(return_type, entry, m) ==
    CASE return_type \in {"mol_graph", "mol_graph3d"} ->
            /\ entry.num_nodes = raw[m].N
            /\ EdgePairs(entry.src, entry.dst) = EdgesList(raw[m].bonds)
            /\ entry.x = CoordinatesOf(m)
            /\ return_type = "mol_graph" =>
                  /\ entry.nfeat = AtomFeaturesList(raw[m])
                  /\ entry.feat = EdgeFeaturesList(raw[m].bonds)
      [] return_type \in {"complete_graph", "complete_graph3d"} ->
            /\ entry.num_nodes = raw[m].N
            /\ IsAllPairs(entry.src, entry.dst, raw[m].N)
            /\ entry.x = CoordinatesOf(m)
      [] return_type = "mol_complete_graph" ->
            /\ entry.num_nodes = raw[m].N
            /\ IsAllPairs(entry.csrc, entry.cdst, raw[m].N)
      [] return_type = "raw_features" -> entry = AtomFeaturesList(raw[m])
      [] return_type = "coordinates" -> entry = CoordinatesOf(m)
      [] return_type = "targets" -> entry = ds.targets[m]
      [] return_type = "mol_id" -> entry = ds.mol_id[m]
      [] return_type = "smiles" -> entry = [smiles_of |-> ds.mol_id[m]]
      [] OTHER -> TRUE

\* C11: for every index i and return_types list R the dataset was constructed
\* with, get(i) returns a tuple of exactly len(R) entries whose j-th entry is the
\* view of kind R[j] of molecule i, in the order of R, a kind named twice twice.
C11_GetItemTuple ==
    ret.call = "getitem" =>
        /\ ret.value.kind = "tuple"
        /\ Len(ret.value.data) = Len(ds.return_types)
        /\ \A j \in DOMAIN ds.return_types :
              IsViewOf(ds.return_types[j], ret.value.data[j], ret.idx + 1)

\* C13: with prefetch, after any get(index) calls and node-drop batching of what
\* they returned, every prefetched graph still has n_atoms[i] nodes and its
\* original edges, so that a later get(i) returns the full molecule.
C13_PrefetchedGraphsIntact ==
    (phase = "dataset" /\ ds.state = "ready" /\ ds.prefetch_graphs) =>
        /\ \A i \in DOMAIN ds.mol_graphs :
              /\ ds.mol_graphs[i].num_nodes = raw[i].N
              /\ EdgePairs(ds.mol_graphs[i].src, ds.mol_graphs[i].dst) = EdgesList(raw[i].bonds)
        /\ \A i \in DOMAIN ds.complete_graphs :
              /\ ds.complete_graphs[i].num_nodes = raw[i].N
              /\ IsAllPairs(ds.complete_graphs[i].src, ds.complete_graphs[i].dst, raw[i].N)
        /\ ret.call = "getitem" =>
              \A j \in DOMAIN ds.return_types :
                 ds.return_types[j] \in {"mol_graph", "mol_graph3d", "complete_graph3d"} =>
                    /\ ret.value.kind = "tuple"
                    /\ ret.value.data[j].num_nodes = raw[ret.idx + 1].N

(***************************************************************************)
(* Properties of the tables of the store.                                  *)
(***************************************************************************)
\* rows [slices[i], slices[i+1]) of a table, or NoValue when the table is too short
RowsOf(table, slices, i) ==
    IF slices[i + 1] > Len(table) THEN NoValue
    ELSE SubSeq(table, slices[i] + 1, slices[i + 1])

\* C22: in the store process() persists, the per-atom tables (atom_features,
\* coordinates, eig_vecs) have atom_slices[-1] rows with molecule i's rows at
\* [atom_slices[i], atom_slices[i+1]), the per-edge tables (edge_features,
\* edge_indices) have edge_slices[-1] entries with molecule i's at
\* [edge_slices[i], edge_slices[i+1]), and the number of atoms featurized from
\* the parsed molecule equals n_atoms[i].
C22_TablesRowAligned ==
    phase = "process_saved" =>
        LET a == data_dict.atom_slices
            e == data_dict.edge_slices
        IN /\ Len(data_dict.atom_features) = a[Len(a)]
           /\ Len(data_dict.coordinates) = a[Len(a)]
           /\ Len(data_dict.eig_vecs) = a[Len(a)]
           /\ Len(data_dict.edge_features) = e[Len(e)]
           /\ Len(data_dict.edge_indices) = e[Len(e)]
           /\ \A i \in DOMAIN raw :
                 /\ raw[i].atoms = data_dict.n_atoms[i]
                 /\ RowsOf(data_dict.atom_features, a, i) = AtomFeaturesList(raw[i])
                 /\ RowsOf(data_dict.eig_vecs, a, i) = EigVecs(raw[i]).rows
                 /\ Len(RowsOf(data_dict.coordinates, a, i)) = raw[i].N
                 /\ RowsOf(data_dict.edge_indices, e, i) = EdgesList(raw[i].bonds)
                 /\ RowsOf(data_dict.edge_features, e, i) = EdgeFeaturesList(raw[i].bonds)

C25_BothDirections ==
    phase = "process_saved" =>
        \A i \in DOMAIN raw :
            LET range == (data_dict.edge_slices[i] + 1)..data_dict.edge_slices[i + 1]
            IN /\ Cardinality(range) = 2 * Len(raw[i].bonds)
               /\ \A k \in range :
                     \E r \in range :
                        /\ data_dict.edge_indices[r] = <<data_dict.edge_indices[k][2],
                                                         data_dict.edge_indices[k][1]>>
                        /\ data_dict.edge_features[r] = data_dict.edge_features[k]

\* a store with a molecule of two bonds, one of them with a non-zero feature vector
C25_Witness ==
    /\ phase = "process_saved"
    /\ \E i \in DOMAIN raw :
          /\ Len(raw[i].bonds) >= 2
          /\ data_dict.edge_slices[i + 1] - data_dict.edge_slices[i] = 2 * Len(raw[i].bonds)
          /\ \E k \in (data_dict.edge_slices[i] + 1)..data_dict.edge_slices[i + 1] :
                data_dict.edge_features[k] = <<1, 0, 1>>

C24_MolGraphView ==
    ret.call = "getitem" =>
        \A j \in DOMAIN ds.return_types :
            ds.return_types[j] = "mol_graph" =>
                /\ ret.value.kind = "tuple"
                /\ LET g == ret.value.data[j]
                       i == ret.idx + 1
                   IN /\ g.num_nodes = ds.n_atoms[i]
                      /\ Len(g.src) = ds.edge_slices[i + 1] - ds.edge_slices[i]
                      /\ EdgePairs(g.src, g.dst) =
                            Slice(ds.edge_indices, ds.edge_slices[i], ds.edge_slices[i + 1])
                      /\ Range(g.src) \cup Range(g.dst) \subseteq 0..(g.num_nodes - 1)
                      /\ g.nfeat = Slice(ds.features_tensor, ds.atom_slices[i], ds.atom_slices[i + 1])
                      /\ g.x = Slice(ds.coordinates, ds.atom_slices[i], ds.atom_slices[i + 1])
                      /\ g.feat = Slice(ds.e_features_tensor, ds.edge_slices[i], ds.edge_slices[i + 1])

\* C26: get(i) of a dataset the constructor accepted never raises 'return type
\* not supported' or a missing-key error: every kind of return_type_options
\* has a value.
C26_EveryOptionServed ==
    ret.call = "getitem" =>
        ~(/\ ret.value.kind = "error"
          /\ ret.value.error \in {"return type not supported", "KeyError"})

\* the same dataset built without prefetch, and what its get(idx) returns
OnDemandTwin == NewDataset(data_dict, [ds.args EXCEPT !.prefetch_graphs = FALSE], ds.events)

\* the node count and the edge list of every relation of a graph
Topology(g) ==
    << g.num_nodes, EdgePairs(g.src, g.dst),
       IF "csrc" \in DOMAIN g THEN EdgePairs(g.csrc, g.cdst) ELSE NoValue >>

\* C27: the first get(i) of a dataset built with prefetch returns, for every
\* graph kind, a graph with the node count and the edge list per relation of
\* the graph that get(i) of the same dataset built without prefetch returns.
C27_PrefetchEquivalent ==
    (ret.call = "getitem" /\ ds.calls = 1 /\ out = NoCall /\ ds.prefetch_graphs) =>
        \E r \in {GetItemLoop(OnDemandTwin, ret.idx, 1, <<>>, <<>>).value} :
            /\ ret.value.kind = r.kind
            /\ r.kind = "tuple" =>
                  \A j \in DOMAIN ds.return_types :
                      ds.return_types[j] \in GraphKinds =>
                          Topology(ret.value.data[j]) = Topology(r.data[j])

(***************************************************************************)
(* Properties of the trainers.                                             *)
(***************************************************************************)
\* the score v is at least as good as b in the direction of the goal
AsGoodAs(goal, v, b) == IF goal = "max" THEN ScoreLeq(b, v) ELSE ScoreLeq(v, b)

\* C28: in Trainer.train, epochs_no_improve becomes 0 after an epoch whose
\* validation score improves on or ties best_val_score and grows by one after
\* any other epoch; the epochs run in order from start_epoch, the loop stops
\* right after the first epoch with epochs_no_improve >= patience and runs up
\* to num_epochs otherwise; every epoch that runs writes last_checkpoint.pt.
C28_EarlyStopping ==
    [][ /\ (trainer.state = "train" /\ trainer'.state = "train" /\ trainer' # trainer) =>
              /\ ~trainer.stopped
              /\ trainer.epoch <= trainer.num_epochs
              /\ trainer.epoch = trainer.start_epoch + Len(trainer.val_scores)
              /\ Len(trainer'.val_scores) = Len(trainer.val_scores) + 1
              /\ trainer'.epochs_no_improve =
                    IF AsGoodAs(trainer.main_metric_goal,
                                trainer'.val_scores[Len(trainer'.val_scores)],
                                trainer.best_val_score)
                    THEN 0 ELSE trainer.epochs_no_improve + 1
              /\ trainer'.last_checkpoint.epoch = trainer.epoch
              /\ trainer'.stopped <=> trainer'.epochs_no_improve >= trainer.patience
        /\ (trainer.state = "train" /\ trainer'.state # "train") =>
              \/ trainer.stopped /\ trainer.last_checkpoint.epoch = Len(trainer.val_scores)
              \/ Len(trainer.val_scores) = trainer.num_epochs
      ]_vars

\* the loop stopped early, after a tie that reset the counter and one epoch
\* that was worse, and the last checkpoint is of the epoch that stopped it
C28_Witness ==
    /\ trainer.state = "train"
    /\ trainer.stopped
    /\ trainer.patience = 1
    /\ trainer.num_epochs = 4
    /\ Len(trainer.val_scores) = 3
    /\ trainer.val_scores[2] = trainer.val_scores[1]
    /\ trainer.epochs_no_improve = 1
    /\ trainer.last_checkpoint.epoch = 3

\* the best of the scores observed, from -inf or +inf; nan compares with nothing
BestObserved(scores, goal) ==
    LET comparable == {k \in DOMAIN scores : scores[k].tag # "nan"}
    IN IF comparable = {} THEN (IF goal = "max" THEN Inf(-1) ELSE Inf(1))
       ELSE scores[CHOOSE k \in comparable :
                      \A j \in comparable : AsGoodAs(goal, scores[k], scores[j])]

\* the epochs whose score is best_val_score
Attained == {k \in DOMAIN trainer.val_scores : trainer.val_scores[k] = trainer.best_val_score}

TurnsOfA(s, k) == {t \in 0..(s - 1) : (t \div k) % 2 = 0}

\* C30: with iterations_per_model = k > 0 a training batch at optim_steps = s
\* steps only the optimizers of model A (model, critic, decoder when it has a
\* loss) when (s // k) % 2 = 0 and only those of model B otherwise, so the
\* sides are trained in alternating blocks of k batches starting with A; with
\* k = 0 both sides are stepped on every batch; optim_steps grows by one per
\* training batch and is unchanged when no optimizer is passed.
C30_AlternatingBlocks ==
    trainer.state = "class" =>
        LET k == trainer.iterations_per_model
            s == trainer.optim_steps
            c == trainer.call
            sideA == {"optim", "optim_critic", "optim_decoder"}
            sideB == {"optim2", "optim_critic2", "optim_decoder2"}
        IN /\ k > 0 =>
                 /\ trainer.steps["optim"] = Cardinality(TurnsOfA(s, k))
                 /\ trainer.steps["optim_critic"] = Cardinality(TurnsOfA(s, k))
                 /\ trainer.steps["optim_decoder"] <= Cardinality(TurnsOfA(s, k))
                 /\ trainer.steps["optim2"] = s - Cardinality(TurnsOfA(s, k))
                 /\ trainer.steps["optim_critic2"] = s - Cardinality(TurnsOfA(s, k))
                 /\ trainer.steps["optim_decoder2"] <= s - Cardinality(TurnsOfA(s, k))
           /\ k = 0 =>
                 \A o \in {"optim", "optim2", "optim_critic", "optim_critic2"} :
                     trainer.steps[o] = s
           /\ (c # NoCall /\ c.optim) =>
                 /\ s = c.optim_steps + 1
                 /\ k > 0 =>
                       IF (c.optim_steps \div k) % 2 = 0
                       THEN {"optim", "optim_critic"} \subseteq c.stepped /\ c.stepped \subseteq sideA
                       ELSE {"optim2", "optim_critic2"} \subseteq c.stepped /\ c.stepped \subseteq sideB
                 /\ k = 0 => {"optim", "optim2", "optim_critic", "optim_critic2"} \subseteq c.stepped
           /\ (c # NoCall /\ ~c.optim) => s = c.optim_steps /\ c.stepped = {}

\* with k = 2, the fifth training batch (optim_steps 4) is model A's again
C30_Witness ==
    /\ trainer.state = "class"
    /\ trainer.iterations_per_model = 2
    /\ trainer.optim_steps = 5
    /\ trainer.call # NoCall
    /\ trainer.call.optim
    /\ trainer.call.stepped = {"optim", "optim_critic", "optim_decoder"}
    /\ trainer.steps["optim"] = 3
    /\ trainer.steps["optim2"] = 2

=============================================================================
